---- MODULE Spec2Model ----
(***************************************************************************)
(* Model of the NetworkTopology controller                                 *)
(* (pkg/controller/networktopology.go) and of the lookup helpers of        *)
(* pkg/networkaware/util.                                                  *)
(*                                                                         *)
(* Time is counted in ticks of TickHours hours; tick 0 is the zero         *)
(* metav1.Time, the clock itself starts at 1 (time.Now() is never zero).   *)
(* Quantities (resource.Quantity) are modelled by their integer value.     *)
(***************************************************************************)
EXTENDS Integers, Sequences, FiniteSets, TLC

(***************************************************************************)
(* Bounds of the model                                                     *)
(***************************************************************************)
\* number of clock ticks the model follows
MaxTicks == 4
\* cap of the rate limiter's per-item failure counter
MaxRequeues == 2
\* number of malformed items that may wait in the queue at once
MaxMalformed == 1
\* number of node events the informer delivers
MaxNodeEvents == 1
\* length of the sorted lists the lookups are tried on
MaxListLen == 3

(***************************************************************************)
(* Program constants                                                       *)
(***************************************************************************)
\* 48*time.Hour, the staleness threshold of syncHandler
StalenessHours == 48
\* hours per clock tick of the model
TickHours == 24
\* *resource.NewQuantity(1*1024, resource.DecimalSI)
DefaultBandwidth == 1024

Manual == "Manual"
Dijkstra == "Dijkstra"

None == [none |-> TRUE]

(***************************************************************************)
(* Names.  Go compares strings bytewise; StrRank lists the names of the    *)
(* model in that order.                                                    *)
(***************************************************************************)
NameOrder == <<"", "r1", "r2", "r3", "z1", "z2", "z3", "z4">>

StrRank(s) == CHOOSE i \in 1..Len(NameOrder) : NameOrder[i] = s

StrLess(a, b) == StrRank(a) < StrRank(b)

NodeNames == {"n1", "n2", "n3"}

\* v1.LabelTopologyRegion and v1.LabelTopologyZone
LabelTopologyRegion == "topology.kubernetes.io/region"

LabelTopologyZone == "topology.kubernetes.io/zone"

\* a label map: the nil map, or a map from label keys to values
NilLabels == [nil |-> TRUE, map |-> << >>]

MakeLabels(m) == [nil |-> FALSE, map |-> m]

\* labels[key]: the empty string for the nil map and for a missing key
LabelAt(labels, key) ==
    IF labels.nil \/ key \notin DOMAIN labels.map THEN "" ELSE labels.map[key]

\* a node object carrying the given topology labels, none for ""
NewNode(region, zone) ==
    [Labels |-> MakeLabels((IF region = "" THEN << >> ELSE LabelTopologyRegion :> region)
                           @@ (IF zone = "" THEN << >> ELSE LabelTopologyZone :> zone))]

\* region and zone labels a node may carry ("" = label absent)
LabelChoices ==
    { NewNode("r1", "z1"),
      NewNode("r1", "z2"),
      NewNode("r2", "z2"),
      NewNode("r2", "z3"),
      NewNode("r3", "z4"),
      NewNode("", "") }

\* mutant: the region read from the zone label
GetNodeRegionFromZoneLabel(node) == LabelAt(node.Labels, LabelTopologyZone)

GetNodeRegion(node) ==
    LET labels == node.Labels
    IN  IF labels.nil THEN ""
        ELSE LET zone == LabelAt(labels, LabelTopologyRegion)
             IN  IF zone = "" THEN "" ELSE zone

GetNodeZone(node) ==
    LET labels == node.Labels
    IN  IF labels.nil THEN ""
        ELSE LET region == LabelAt(labels, LabelTopologyZone)
             IN  IF region = "" THEN "" ELSE region

\* mutant: a pod counts as assigned whatever its node name
AssignedPodAlways(pod) == TRUE

AssignedPod(pod) == pod.Spec.NodeName # ""

(***************************************************************************)
(* Work-queue items.  A string item is kept as the list of its             *)
(* "/"-separated segments; an item that is no string has str = FALSE.      *)
(***************************************************************************)
StrItem(segs) == [str |-> TRUE, segs |-> segs]

NtKey == StrItem(<<"ns", "a">>)

NtKeyB == StrItem(<<"ns", "b">>)

BadKey == StrItem(<<"a", "b", "c">>)

NonStringItem == [str |-> FALSE, segs |-> <<"obj">>]

\* the *NetworkTopology pointer of the fetched object, as a queue item
NtPointerItem == [str |-> FALSE, segs |-> <<"ptr", "ns", "a">>]

Items == {NtKey, NtKeyB, BadKey, NonStringItem, NtPointerItem}

\* cache.MetaNamespaceKeyFunc: namespace/name
MetaNamespaceKeyFunc(obj) == StrItem(<<obj.namespace, obj.name>>)

\* cache.SplitMetaNamespaceKey: one segment is a name, two are namespace and
\* name, anything else is an error
SplitMetaNamespaceKey(key) ==
    CASE Len(key.segs) = 1 -> [err |-> FALSE, namespace |-> "", name |-> key.segs[1]]
      [] Len(key.segs) = 2 -> [err |-> FALSE, namespace |-> key.segs[1], name |-> key.segs[2]]
      [] OTHER -> [err |-> TRUE, namespace |-> "", name |-> ""]

(***************************************************************************)
(* util.Graph: directed weighted graph, a function from <<u, v>> to cost   *)
(***************************************************************************)
NewGraph == << >>

Edges(g) == DOMAIN g

AddEdge(g, u, v, cost) ==
    [e \in Edges(g) \cup {<<u, v>>} |-> IF e = <<u, v>> THEN cost ELSE g[e]]

Vertices(g) == {e[1] : e \in Edges(g)} \cup {e[2] : e \in Edges(g)}

\* costs of the simple paths from u to v that avoid the vertices in seen
RECURSIVE PathCosts(_, _, _, _)
PathCosts(g, u, v, seen) ==
    (IF <<u, v>> \in Edges(g) THEN {g[<<u, v>>]} ELSE {})
    \cup UNION { { g[<<u, w>>] + c : c \in PathCosts(g, w, v, seen \cup {w}) } :
                 w \in { x \in Vertices(g) \ (seen \cup {v}) : <<u, x>> \in Edges(g) } }

SetMin(S) == CHOOSE x \in S : \A y \in S : x <= y

\* GetPath: cost of a least-cost path; found = FALSE and cost 0 when none
GetPath(g, u, v) ==
    LET cs == PathCosts(g, u, v, {u})
    IN  IF cs = {} THEN [cost |-> 0, found |-> FALSE]
        ELSE [cost |-> SetMin(cs), found |-> TRUE]

(***************************************************************************)
(* Measurement config map: data maps the cost-query key of an ordered node *)
(* pair to a string, kept as its list of characters                        *)
(***************************************************************************)
GetConfigmapCostQuery(n1, n2) == <<n1, n2>>

Digits == <<"0", "1", "2", "3", "4", "5", "6", "7", "8", "9">>

IsDigit(c) == \E i \in 1..Len(Digits) : Digits[i] = c

DigitVal(c) == (CHOOSE i \in 1..Len(Digits) : Digits[i] = c) - 1

RECURSIVE ParseDigits(_, _)
ParseDigits(s, acc) ==
    IF s = << >> THEN acc ELSE ParseDigits(Tail(s), acc * Len(Digits) + DigitVal(Head(s)))

\* strconv.Atoi: optional sign, then one or more decimal digits; anything
\* else is an error and the value 0
Atoi(s) ==
    LET signed == s # << >> /\ Head(s) \in {"+", "-"}
        body   == IF signed THEN Tail(s) ELSE s
    IN  IF body = << >> \/ \E i \in 1..Len(body) : ~IsDigit(body[i])
        THEN [val |-> 0, err |-> TRUE]
        ELSE [val |-> IF signed /\ Head(s) = "-" THEN 0 - ParseDigits(body, 0)
                      ELSE ParseDigits(body, 0),
              err |-> FALSE]

\* configmap.Data[key]: the empty string when the key is missing
DataAt(data, key) == IF key \in DOMAIN data THEN data[key] ELSE << >>

MeasuredData ==
    ( <<"n1", "n2">> :> <<"5">> ) @@ ( <<"n2", "n1">> :> <<"3">> ) @@
    ( <<"n1", "n3">> :> <<"1", "0">> ) @@ ( <<"n3", "n1">> :> <<"x">> ) @@
    ( <<"n2", "n3">> :> <<"7">> )

CmDatas == { MeasuredData }

CmName == "cm"

ConfigMap(data) == [present |-> TRUE, data |-> data]

NoConfigMap == [present |-> FALSE, data |-> << >>]

(***************************************************************************)
(* Cost lists                                                              *)
(***************************************************************************)
CostInfo(dest, capacity, allocated, cost) ==
    [destination |-> dest, bandwidthCapacity |-> capacity,
     bandwidthAllocated |-> allocated, networkCost |-> cost]

OriginInfo(origin, costs) == [origin |-> origin, costs |-> costs]

WeightInfo(name, regionCostList, zoneCostList) ==
    [name |-> name, regionCostList |-> regionCostList, zoneCostList |-> zoneCostList]

\* ByOrigin.Less
ByOriginLess(a, b) == StrLess(a.origin, b.origin)

\* sort.Sort(ByOrigin(costList)): insertion of x into a sorted list
RECURSIVE InsertByOrigin(_, _)
InsertByOrigin(x, l) ==
    IF l = << >> THEN <<x>>
    ELSE IF ByOriginLess(x, Head(l)) THEN <<x>> \o l
    ELSE <<Head(l)>> \o InsertByOrigin(x, Tail(l))

RECURSIVE SortByOrigin(_)
SortByOrigin(l) ==
    IF l = << >> THEN << >> ELSE InsertByOrigin(Head(l), SortByOrigin(Tail(l)))

\* contains(s, str)
contains(s, str) == \E i \in 1..Len(s) : s[i] = str

\* the distinct values of f over the list, in order of first occurrence
RECURSIVE Distinct(_, _)
Distinct(l, acc) ==
    IF l = << >> THEN acc
    ELSE Distinct(Tail(l), IF contains(acc, Head(l)) THEN acc ELSE Append(acc, Head(l)))

(***************************************************************************)
(* updateGraph: rebuilds the three graphs from the listed nodes and the    *)
(* config map; ZoneMap is only ever added to.                              *)
(* st = [nodeGraph, regionGraph, zoneGraph, ZoneMap]                       *)
(***************************************************************************)
\* "Select higher cost!": the edge is written when the current path cost is lower
SelectHigherCost(current, cost) == current < cost

\* mutant: a pair whose cost is 0 gets no edge in the node graph
UpdatePairSkipZero(st, n1, n2, cost) ==
    LET r1 == GetNodeRegion(n1)
        z1 == GetNodeZone(n1)
        r2 == GetNodeRegion(n2)
        z2 == GetNodeZone(n2)
    IN  [st EXCEPT
           !.nodeGraph = IF cost = 0 THEN @ ELSE AddEdge(@, n1.name, n2.name, cost),
           !.regionGraph =
               IF r1 # r2 /\ SelectHigherCost(GetPath(@, r1, r2).cost, cost)
               THEN AddEdge(@, r1, r2, cost) ELSE @,
           !.ZoneMap = IF r1 = r2 /\ z1 # z2 THEN @ \cup {<<z1, z2>>} ELSE @,
           !.zoneGraph =
               IF r1 = r2 /\ z1 # z2 /\ SelectHigherCost(GetPath(@, z1, z2).cost, cost)
               THEN AddEdge(@, z1, z2, cost) ELSE @]

\* one iteration of the inner loop, cost being the parsed config map value
UpdatePair(st, n1, n2, cost) ==
    LET r1 == GetNodeRegion(n1)
        z1 == GetNodeZone(n1)
        r2 == GetNodeRegion(n2)
        z2 == GetNodeZone(n2)
    IN  [st EXCEPT
           !.nodeGraph = AddEdge(@, n1.name, n2.name, cost),
           !.regionGraph =
               IF r1 # r2 /\ SelectHigherCost(GetPath(@, r1, r2).cost, cost)
               THEN AddEdge(@, r1, r2, cost) ELSE @,
           !.ZoneMap = IF r1 = r2 /\ z1 # z2 THEN @ \cup {<<z1, z2>>} ELSE @,
           !.zoneGraph =
               IF r1 = r2 /\ z1 # z2 /\ SelectHigherCost(GetPath(@, z1, z2).cost, cost)
               THEN AddEdge(@, z1, z2, cost) ELSE @]

RECURSIVE UpdateLoop(_, _, _, _, _)
UpdateLoop(st, nodes, data, i, j) ==
    IF i > Len(nodes) THEN st
    ELSE IF j > Len(nodes) THEN UpdateLoop(st, nodes, data, i + 1, 1)
    ELSE IF nodes[i].name # nodes[j].name
    THEN UpdateLoop(UpdatePair(st, nodes[i], nodes[j],
                               Atoi(DataAt(data, GetConfigmapCostQuery(nodes[i].name,
                                                                       nodes[j].name))).val),
                    nodes, data, i, j + 1)
    ELSE UpdateLoop(st, nodes, data, i, j + 1)

updateGraph(zoneMap, nodes, data) ==
    UpdateLoop([nodeGraph |-> NewGraph, regionGraph |-> NewGraph,
                zoneGraph |-> NewGraph, ZoneMap |-> zoneMap],
               nodes, data, 1, 1)

(***************************************************************************)
(* getRegionWeights / getZoneWeights                                       *)
(***************************************************************************)
RegionCostInfo(regionGraph, r1, r2) ==
    CostInfo(r2, DefaultBandwidth, DefaultBandwidth, GetPath(regionGraph, r1, r2).cost)

\* mutant: the list is returned as built, without sort.Sort
getRegionWeightsUnsorted(regionGraph, nodes) ==
    LET regions == Distinct([i \in 1..Len(nodes) |-> GetNodeRegion(nodes[i])], << >>)
        costsOf(r1) ==
            LET differs(r2) == r1 # r2
                others == SelectSeq(regions, differs)
            IN  [k \in 1..Len(others) |-> RegionCostInfo(regionGraph, r1, others[k])]
    IN  [k \in 1..Len(regions) |-> OriginInfo(regions[k], costsOf(regions[k]))]

getRegionWeights(regionGraph, nodes) ==
    LET regions == Distinct([i \in 1..Len(nodes) |-> GetNodeRegion(nodes[i])], << >>)
        costsOf(r1) ==
            LET differs(r2) == r1 # r2
                others == SelectSeq(regions, differs)
            IN  [k \in 1..Len(others) |-> RegionCostInfo(regionGraph, r1, others[k])]
    IN  SortByOrigin([k \in 1..Len(regions) |-> OriginInfo(regions[k], costsOf(regions[k]))])

ZoneCostInfo(zoneGraph, z1, z2) ==
    CostInfo(z2, DefaultBandwidth, DefaultBandwidth, GetPath(zoneGraph, z1, z2).cost)

getZoneWeights(zoneGraph, zoneMap, nodes) ==
    LET zones == Distinct([i \in 1..Len(nodes) |-> GetNodeZone(nodes[i])], << >>)
        costsOf(z1) ==
            LET sameRegion(z2) == z1 # z2 /\ <<z1, z2>> \in zoneMap
                others == SelectSeq(zones, sameRegion)
            IN  [k \in 1..Len(others) |-> ZoneCostInfo(zoneGraph, z1, others[k])]
    IN  SortByOrigin([k \in 1..Len(zones) |-> OriginInfo(zones[k], costsOf(zones[k]))])

(***************************************************************************)
(* Sorted-list lookups of pkg/networkaware/util (binary search, 0-based    *)
(* low/high as in the code; the result is the 1-based position or 0)       *)
(***************************************************************************)
RECURSIVE BinarySearch(_, _, _, _)
RECURSIVE BinarySearchExclusive(_, _, _, _)
\* mutant: the middle entry is returned without comparing its key
BinarySearchNoCompare(keys, key, low, high) ==
    IF low > high THEN 0 ELSE (low + high) \div 2 + 1

\* mutant: the loop runs while low < high
BinarySearchExclusive(keys, key, low, high) ==
    IF low >= high THEN 0
    ELSE LET mid == (low + high) \div 2
         IN  IF keys[mid + 1] = key THEN mid + 1
             ELSE IF StrLess(keys[mid + 1], key)
                  THEN BinarySearchExclusive(keys, key, mid + 1, high)
             ELSE BinarySearchExclusive(keys, key, low, mid - 1)

\* the loop of the four lookups
BinarySearch(keys, key, low, high) ==
    IF low > high THEN 0
    ELSE LET mid == (low + high) \div 2
         IN  IF keys[mid + 1] = key THEN mid + 1
             ELSE IF StrLess(keys[mid + 1], key) THEN BinarySearch(keys, key, mid + 1, high)
             ELSE BinarySearch(keys, key, low, mid - 1)

FindPodOrder(t, workloadName) ==
    LET i == BinarySearch([k \in 1..Len(t) |-> t[k].workloadName],
                          workloadName, 0, Len(t) - 1)
    IN  IF i = 0 THEN -1 ELSE t[i].index

FindTopologyKey(topologyList, key) ==
    LET i == BinarySearch([k \in 1..Len(topologyList) |-> topologyList[k].topologyKey],
                          key, 0, Len(topologyList) - 1)
    IN  IF i = 0 THEN << >> ELSE topologyList[i].originCosts

FindOriginCosts(originList, origin) ==
    LET i == BinarySearch([k \in 1..Len(originList) |-> originList[k].origin],
                          origin, 0, Len(originList) - 1)
    IN  IF i = 0 THEN << >> ELSE originList[i].costs

FindOriginBandwidthCapacity(costList, destination) ==
    LET i == BinarySearch([k \in 1..Len(costList) |-> costList[k].destination],
                          destination, 0, Len(costList) - 1)
    IN  IF i = 0 THEN 0 ELSE costList[i].bandwidthCapacity

(***************************************************************************)
(* NetworkTopology objects                                                 *)
(***************************************************************************)
ZeroTime == 0

IsZero(t) == t = ZeroTime

ManualRegionCosts ==
    << OriginInfo("r1", << CostInfo("r2", 5, 0, 1) >>),
       OriginInfo("r2", << CostInfo("r1", 6, 0, 1) >>) >>

ManualZoneCosts ==
    << OriginInfo("z1", << CostInfo("z2", 7, 0, 1) >>) >>

\* spec.weights as an operator may author it
WeightChoices ==
    { << >>,
      << WeightInfo(Manual, ManualRegionCosts, ManualZoneCosts) >>,
      << WeightInfo(Dijkstra, << >>, << >>),
         WeightInfo("Custom", ManualZoneCosts, << >>),
         WeightInfo(Manual, ManualRegionCosts, ManualZoneCosts) >> }

NewNetworkTopology(key, weights, created) ==
    [namespace |-> key[1], name |-> key[2], creationTimestamp |-> created,
     configmapName |-> CmName, weights |-> weights,
     nodeCount |-> 0, weightCalculationTime |-> ZeroTime]

\* the objects of the NetworkTopology cache, by <<namespace, name>>
NtNames == { <<"ns", "a">> }

\* the objects two workers may reconcile at the same time
WorkerNtNames == { <<"ns", "a">>, <<"ns", "b">> }

\* the node sets the cluster may hold, with the controller state the node
\* handlers have built for them
NodeConfigs ==
    { ( "n1" :> NewNode("r1", "z1") ) @@ ( "n2" :> NewNode("r1", "z2") ),
      ( "n1" :> NewNode("r1", "z1") ) @@ ( "n3" :> NewNode("r2", "z3") ) }

NodeOf(store, n) == [name |-> n, Labels |-> store[n].Labels]

\* the orders in which the node lister may return the nodes of the store
NodeLists(store) ==
    { l \in [1..Cardinality(DOMAIN store) -> DOMAIN store] :
        \A i, j \in DOMAIN l : i # j => l[i] # l[j] }

ListNodes(store, l) == [i \in DOMAIN l |-> NodeOf(store, l[i])]

TopologyKeysOf(store) ==
    { <<GetNodeRegion(store[n]), GetNodeZone(store[n])>> :
        n \in { m \in DOMAIN store : GetNodeRegion(store[m]) # "" /\ GetNodeZone(store[m]) # "" } }

(***************************************************************************)
(* The AppGroup of the example manifest: the leader depends on the         *)
(* follower with a minimum bandwidth                                       *)
(***************************************************************************)
PodNames == {"leader", "follower"}

\* minBandwidth: "100Mi", in Mi
MinBandwidth == 100

Dependencies == { [workload |-> "leader", on |-> "follower", minBandwidth |-> MinBandwidth] }

(***************************************************************************)
(* State                                                                   *)
(***************************************************************************)
VARIABLES
    now,            \* the clock, in ticks
    ntStore,        \* NetworkTopology cache / API server: NtNames -> object or None
    cmStore,        \* config map cache: is config map CmName present, and its data
    nodeStore,      \* node cache: names of the present nodes -> labels
    nodeCount,      \* ctrl.nodeCount
    topologyMap,    \* ctrl.topologyMap, the set of its keys
    ZoneMap,        \* ctrl.ZoneMap, the set of its keys
    regionGraph,    \* ctrl.regionGraph
    zoneGraph,      \* ctrl.zoneGraph
    nodeGraph,      \* ctrl.nodeGraph
    ntQueue,        \* ctrl.ntQueue: [queue, dirty, processing, waitingForAdd, failures]
    pods,           \* the workload instances of the AppGroup: pod -> node name, "" unassigned
    lastSync,       \* what the step just taken did, when it was processNextWorkItem
    run,            \* Run: its position, the caches that reported, stopCh, the workers started
    lock,           \* ctrl.lock: the thread that holds it, "" when free
    pc,             \* position of every worker and of the node informer's handler thread
    local,          \* the local variables of every worker inside processNextWorkItem
    handler,        \* the node handler call in progress and the calls that follow it
    access,         \* the access to the shared controller state the step just taken made
    passes,         \* the recomputation passes run so far, the latest last
    find,           \* a sorted list, a query key and what the lookups returned
    conv,           \* a configuration value and the conversions applied to it
    util            \* a node, a pod and what the helper functions returned for them

vars == <<now, ntStore, cmStore, nodeStore, nodeCount, topologyMap, ZoneMap,
          regionGraph, zoneGraph, nodeGraph, ntQueue, pods, lastSync,
          run, lock, pc, local, handler, access, passes, find, conv, util>>

auxVars == <<run, lock, pc, local, handler, access, passes, find, conv, util>>

ctrlGraphs == <<ZoneMap, regionGraph, zoneGraph, nodeGraph>>

nodeState == <<nodeStore, nodeCount, topologyMap, pods>>

(***************************************************************************)
(* workqueue.RateLimitingInterface, as the controller uses it              *)
(***************************************************************************)
NewNamedRateLimitingQueue ==
    [queue |-> << >>, dirty |-> {}, processing |-> {}, waitingForAdd |-> {},
     failures |-> [i \in Items |-> 0], shuttingDown |-> FALSE]

\* mutant: every Add appends the item
QueueAddAlways(q, item) ==
    [q EXCEPT !.dirty = @ \cup {item}, !.queue = Append(@, item)]

\* Add: dropped when the queue is shutting down or the item is already
\* dirty; an item being processed is only marked
QueueAdd(q, item) ==
    IF q.shuttingDown \/ item \in q.dirty THEN q
    ELSE IF item \in q.processing THEN [q EXCEPT !.dirty = @ \cup {item}]
    ELSE [q EXCEPT !.dirty = @ \cup {item}, !.queue = Append(@, item)]

\* Get: the head leaves the queue and the dirty set and is being processed
QueueGet(q) ==
    [q EXCEPT !.queue = Tail(@), !.dirty = @ \ {Head(q.queue)},
              !.processing = @ \cup {Head(q.queue)}]

\* mutant: Done forgets a key that was marked dirty meanwhile
QueueDoneDropsDirty(q, item) == [q EXCEPT !.processing = @ \ {item}]

\* Done: a key marked dirty meanwhile goes back to the queue
QueueDone(q, item) ==
    IF item \in q.dirty
    THEN [q EXCEPT !.processing = @ \ {item}, !.queue = Append(@, item)]
    ELSE [q EXCEPT !.processing = @ \ {item}]

\* AddRateLimited: AddAfter(item, rateLimiter.When(item)); When counts the failure
QueueAddRateLimited(q, item) ==
    [q EXCEPT !.failures[item] = @ + 1,
              !.waitingForAdd = IF q.shuttingDown THEN @ ELSE @ \cup {item}]

\* mutant: ShutDown leaves the queue as it is
QueueShutDownNever(q) == q

\* ShutDown
QueueShutDown(q) == [q EXCEPT !.shuttingDown = TRUE]

\* Forget: the rate limiter drops its record of the item
QueueForget(q, item) == [q EXCEPT !.failures[item] = 0]

\* NumRequeues
NumRequeues(q, item) == q.failures[item]

\* n calls of AddRateLimited for the item
RECURSIVE AddRateLimitedTimes(_, _, _)
AddRateLimitedTimes(q, item, n) ==
    IF n = 0 THEN q ELSE AddRateLimitedTimes(QueueAddRateLimited(q, item), item, n - 1)

(***************************************************************************)
(* syncHandler                                                             *)
(*                                                                         *)
(* Inputs of one run: fault, the call that fails for a reason other than   *)
(* not-found, and order, the order in which the node lister returns the    *)
(* nodes.  Errors are "nil", "NotFound" or "other".  In the outcome,       *)
(* struck is the call whose failure the run met ("none" when it met none). *)
(***************************************************************************)
Faults == {"none", "ntGet", "list", "cmGet", "createPatch", "patch"}

\* ntLister.NetworkTopologies(namespace).Get(name)
NtGet(store, namespace, name, fault) ==
    IF fault = "ntGet" THEN [obj |-> None, err |-> "other"]
    ELSE IF <<namespace, name>> \in DOMAIN store /\ store[<<namespace, name>>] # None
    THEN [obj |-> store[<<namespace, name>>], err |-> "nil"]
    ELSE [obj |-> None, err |-> "NotFound"]

\* configmapLister.ConfigMaps(namespace).Get(name)
CmGet(store, name, fault) ==
    IF fault = "cmGet" THEN [data |-> << >>, err |-> "other"]
    ELSE IF name = CmName /\ store.present THEN [data |-> store.data, err |-> "nil"]
    ELSE [data |-> << >>, err |-> "NotFound"]

\* mutant: the lists of the first entry, whatever its name
ManualCostsOfFirst(weights) ==
    IF weights = << >> THEN [region |-> << >>, zone |-> << >>]
    ELSE [region |-> weights[1].regionCostList, zone |-> weights[1].zoneCostList]

\* the loop over ntCopy.Spec.Weights: the lists of the last entry named Manual
ManualCostsOf(weights) ==
    LET idx == { i \in 1..Len(weights) : weights[i].name = Manual }
    IN  IF idx = {} THEN [region |-> << >>, zone |-> << >>]
        ELSE LET i == CHOOSE k \in idx : \A m \in idx : m <= k
             IN  [region |-> weights[i].regionCostList, zone |-> weights[i].zoneCostList]

\* mutant: the threshold itself already counts as stale
ShouldRecomputeAtThreshold(nt, ntCopy) ==
    \/ IsZero(ntCopy.weightCalculationTime)
    \/ (ntCopy.weightCalculationTime - nt.creationTimestamp) * TickHours >= StalenessHours

\* the two conditions under which the weights step recomputes
ShouldRecompute(nt, ntCopy) ==
    \/ IsZero(ntCopy.weightCalculationTime)
    \/ (ntCopy.weightCalculationTime - nt.creationTimestamp) * TickHours > StalenessHours

\* the body of either recomputation branch, g being what updateGraph leaves
\* in the controller: returns the mutated copy and the graphs
Recompute(ntCopy, g, nodes, t) ==
    LET manual == ManualCostsOf(ntCopy.weights)
    IN  [nt |-> [ntCopy EXCEPT
                   !.weights =
                       << WeightInfo(Manual, manual.region, manual.zone),
                          WeightInfo(Dijkstra,
                                     getRegionWeights(g.regionGraph, nodes),
                                     getZoneWeights(g.zoneGraph, g.ZoneMap, nodes)) >>,
                   !.weightCalculationTime = t],
         graphs |-> g, recomputed |-> TRUE]

NoGraphs == [none |-> TRUE]

\* the weights step: the recomputation, or the copy as it is
WeightsStep(nt, ntCopy, zoneMap, nodes, data, t) ==
    IF ShouldRecompute(nt, ntCopy)
    THEN Recompute(ntCopy, updateGraph(zoneMap, nodes, data), nodes, t)
    ELSE [nt |-> ntCopy, graphs |-> NoGraphs, recomputed |-> FALSE]

\* mutant: the patch is computed and sent without comparing the objects
patchNetworkTopologyUnconditional(old, new, fault) ==
    IF fault = "createPatch" THEN [submitted |-> FALSE, err |-> "other"]
    ELSE IF fault = "patch" THEN [submitted |-> TRUE, err |-> "other"]
    ELSE [submitted |-> TRUE, err |-> "nil"]

\* patchNetworkTopology: submitted = the Patch call was made
patchNetworkTopology(old, new, fault) ==
    IF old # new
    THEN IF fault = "createPatch" THEN [submitted |-> FALSE, err |-> "other"]
         ELSE IF fault = "patch" THEN [submitted |-> TRUE, err |-> "other"]
         ELSE [submitted |-> TRUE, err |-> "nil"]
    ELSE [submitted |-> FALSE, err |-> "nil"]

\* mutant: the deferred function never re-adds the key
DeferredRequeuesNever(err) == 0

\* the deferred function of syncHandler: it reads the function's err variable
DeferredRequeues(err) == IF err # "nil" THEN 1 ELSE 0

\* the item syncHandler hands to ntQueue.Forget after a successful patch step
ForgottenItem(key) == NtPointerItem

\* the outcome of a run that ends before the weights step
EarlyReturn(ret, requeues, exit) ==
    [ret |-> ret, requeues |-> requeues, forgot |-> {}, exit |-> exit,
     fetched |-> None, mutated |-> None, recomputed |-> FALSE,
     submitted |-> FALSE, applied |-> FALSE, graphs |-> NoGraphs,
     struck |-> "none"]

\* the patch step and the Forget that follows it, w being the outcome of
\* the weights step
PatchStep(key, nt, w, fault) ==
    LET patch == patchNetworkTopology(nt, w.nt, fault)
    IN  [ret |-> IF patch.err = "nil" THEN "nil" ELSE "err",
         requeues |-> DeferredRequeues(patch.err),
         forgot |-> IF patch.err = "nil" THEN {ForgottenItem(key)} ELSE {},
         exit |-> "patched",
         fetched |-> nt, mutated |-> w.nt, recomputed |-> w.recomputed,
         submitted |-> patch.submitted,
         applied |-> patch.submitted /\ patch.err = "nil",
         graphs |-> w.graphs,
         struck |-> IF nt # w.nt /\ fault \in {"createPatch", "patch"}
                    THEN fault ELSE "none"]

\* syncHandler from the key split to the config map: the outcome of the run
\* when one of them ends it, otherwise the NetworkTopology it goes on with
Fetches(key, st, fault) ==
    LET split == SplitMetaNamespaceKey(key)
        got   == NtGet(st.ntStore, split.namespace, split.name, fault)
        nt    == got.obj
        cm    == CmGet(st.cmStore, nt.configmapName, fault)
    IN  IF split.err THEN EarlyReturn("nil", 0, "invalid key")
        ELSE IF got.err = "NotFound"
             THEN EarlyReturn("nil", DeferredRequeues(got.err), "nt not found")
        ELSE IF got.err # "nil"
             THEN [EarlyReturn("err", DeferredRequeues(got.err), "nt get failed")
                      EXCEPT !.struck = "ntGet"]
        ELSE IF fault = "list"
             THEN [EarlyReturn("err", DeferredRequeues("other"), "list failed")
                      EXCEPT !.fetched = nt, !.struck = "list"]
        ELSE IF cm.err = "NotFound"
             THEN [EarlyReturn("nil", DeferredRequeues(cm.err), "cm not found")
                      EXCEPT !.fetched = nt]
        ELSE IF cm.err # "nil"
             THEN [EarlyReturn("err", DeferredRequeues(cm.err), "cm get failed")
                      EXCEPT !.fetched = nt, !.struck = "cmGet"]
        ELSE [EarlyReturn("nil", 0, "fetched") EXCEPT !.fetched = nt]

syncHandler(key, st, fault, order) ==
    LET f == Fetches(key, st, fault)
    IN  IF f.exit # "fetched" THEN f
        ELSE PatchStep(key, f.fetched,
                       WeightsStep(f.fetched,
                                   [f.fetched EXCEPT !.nodeCount = st.nodeCount],
                                   st.ZoneMap, ListNodes(st.nodeStore, order),
                                   st.cmStore.data, st.now),
                       fault)

(***************************************************************************)
(* processNextWorkItem: Get, the type check, syncHandler, the deferred     *)
(* Done.  Returns the queue it leaves, what syncHandler did, and its own   *)
(* return value.                                                           *)
(***************************************************************************)
\* mutant: the non-string item is re-added with rate limiting
DropNonStringRequeue(q, item) == QueueAddRateLimited(q, item)

\* the branch for a dequeued item that is no string
DropNonString(q, item) == QueueForget(q, item)

\* the queue calls syncHandler makes: Forget after the patch step, or the
\* deferred AddRateLimited
SyncQueueCalls(q, key, out) ==
    LET f == IF out.forgot = {} THEN q
             ELSE QueueForget(q, CHOOSE i \in out.forgot : TRUE)
    IN  AddRateLimitedTimes(f, key, out.requeues)

\* the return of processNextWorkItem after syncHandler, with the deferred Done
AfterSync(q, keyObj, out) ==
    [queue |-> QueueDone(SyncQueueCalls(q, keyObj, out), keyObj),
     synced |-> TRUE, result |-> TRUE, out |-> out]

processNextWorkItem(q, st, fault, order) ==
    LET keyObj == Head(q.queue)
        q1 == QueueGet(q)
    IN  IF ~keyObj.str
        THEN [queue |-> QueueDone(DropNonString(q1, keyObj), keyObj),
              synced |-> FALSE, result |-> TRUE,
              out |-> EarlyReturn("nil", 0, "not a string")]
        ELSE AfterSync(q1, keyObj, syncHandler(keyObj, st, fault, order))

NoSync ==
    [acted |-> FALSE, item |-> None, synced |-> FALSE, result |-> FALSE,
     failuresBefore |-> 0,
     out |-> EarlyReturn("nil", 0, "none")]

CtrlState ==
    [ntStore |-> ntStore, cmStore |-> cmStore, nodeStore |-> nodeStore,
     nodeCount |-> nodeCount, ZoneMap |-> ZoneMap, now |-> now]

(***************************************************************************)
(* Actions                                                                 *)
(***************************************************************************)
\* the worker goroutines Run may start, and the goroutine on which the node
\* informer calls the node handlers one after the other
Workers == {"w1", "w2"}

Informer == "informer"

\* Run has not been called
Constructed ==
    [pc |-> "constructed", ntListerSynced |-> FALSE, nodeListerSynced |-> FALSE,
     stopCh |-> FALSE, workers |-> {}]

\* Run has seen both caches report and has started its workers
Started ==
    [pc |-> "running", ntListerSynced |-> TRUE, nodeListerSynced |-> TRUE,
     stopCh |-> FALSE, workers |-> Workers]

NoLocal == [item |-> None, nt |-> None, ntCopy |-> None, nodes |-> << >>, data |-> << >>]

\* no node handler is running; last is the kind of the notification delivered
\* last and the node count when it arrived
NoCalls ==
    [calls |-> << >>, step |-> "idle", events |-> 0, last |-> [event |-> "", count |-> 0]]

NoAccess == [thread |-> "", field |-> "", kind |-> "", held |-> FALSE]

NoFind == [none |-> TRUE]

NoConv == [none |-> TRUE]

NoUtil == [none |-> TRUE]

\* the controller as NewNetworkTopologyController returns it, the informers
\* holding one of the given node sets and having called nodeAdded for each
\* of its nodes
Constructor(stores, nts, r) ==
    /\ now = 1
    /\ ntStore = [k \in nts |-> None]
    /\ cmStore = NoConfigMap
    /\ nodeStore \in stores
    /\ nodeCount = Cardinality(DOMAIN nodeStore)
    /\ topologyMap = TopologyKeysOf(nodeStore)
    /\ ZoneMap = {}
    /\ regionGraph = NewGraph
    /\ zoneGraph = NewGraph
    /\ nodeGraph = NewGraph
    /\ ntQueue = NewNamedRateLimitingQueue
    /\ pods = [p \in PodNames |-> ""]
    /\ lastSync = NoSync
    /\ run = r
    /\ lock = ""
    /\ pc = [w \in Workers |-> "idle"]
    /\ local = [w \in Workers |-> NoLocal]
    /\ handler = NoCalls
    /\ access = NoAccess
    /\ passes = << >>

Init == Constructor(NodeConfigs, NtNames, Started) /\ find = NoFind /\ conv = NoConv /\ util = NoUtil

\* time passes
Tick ==
    /\ now < MaxTicks
    /\ now' = now + 1
    /\ lastSync' = NoSync
    /\ UNCHANGED <<ntStore, cmStore, nodeState, ctrlGraphs, ntQueue>>
    /\ UNCHANGED auxVars

\* an operator creates the NetworkTopology; the informer calls ntAdded
ntAdded ==
    \E k \in DOMAIN ntStore, w \in WeightChoices :
        /\ ntStore[k] = None
        /\ ntStore' = [ntStore EXCEPT ![k] = NewNetworkTopology(k, w, now)]
        /\ ntQueue' = QueueAdd(ntQueue, MetaNamespaceKeyFunc(ntStore'[k]))
        /\ lastSync' = NoSync
        /\ UNCHANGED <<now, cmStore, nodeState, ctrlGraphs>>
        /\ UNCHANGED auxVars

\* the informer reports an update (or a resync) of the NetworkTopology
ntUpdated ==
    \E k \in DOMAIN ntStore :
        /\ ntStore[k] # None
        /\ ntQueue' = QueueAdd(ntQueue, MetaNamespaceKeyFunc(ntStore[k]))
        /\ lastSync' = NoSync
        /\ UNCHANGED <<now, ntStore, cmStore, nodeState, ctrlGraphs>>
        /\ UNCHANGED auxVars

\* the NetworkTopology is deleted; the informer calls ntDeleted
ntDeleted ==
    \E k \in DOMAIN ntStore :
        /\ ntStore[k] # None
        /\ NumRequeues(ntQueue, MetaNamespaceKeyFunc(ntStore[k])) < MaxRequeues
        /\ ntStore' = [ntStore EXCEPT ![k] = None]
        /\ ntQueue' = QueueAddRateLimited(ntQueue, MetaNamespaceKeyFunc(ntStore[k]))
        /\ lastSync' = NoSync
        /\ UNCHANGED <<now, cmStore, nodeState, ctrlGraphs>>
        /\ UNCHANGED auxVars

\* the config map of measurements is created
ConfigMapSet ==
    \E d \in CmDatas :
        /\ ~cmStore.present
        /\ cmStore' = ConfigMap(d)
        /\ lastSync' = NoSync
        /\ UNCHANGED <<now, ntStore, nodeState, ctrlGraphs, ntQueue>>
        /\ UNCHANGED auxVars

ConfigMapDelete ==
    /\ cmStore.present
    /\ cmStore' = NoConfigMap
    /\ lastSync' = NoSync
    /\ UNCHANGED <<now, ntStore, nodeState, ctrlGraphs, ntQueue>>
    /\ UNCHANGED auxVars

\* the delay of a rate-limited add elapses: the delaying queue adds the item
DelayElapsed ==
    \E item \in ntQueue.waitingForAdd :
        /\ ntQueue' = QueueAdd([ntQueue EXCEPT !.waitingForAdd = @ \ {item}], item)
        /\ lastSync' = NoSync
        /\ UNCHANGED <<now, ntStore, cmStore, nodeState, ctrlGraphs>>
        /\ UNCHANGED auxVars

\* an item that is no namespace/name key string reaches the queue
EnqueueMalformed ==
    \E item \in {BadKey, NonStringItem} :
        /\ item \notin ntQueue.dirty
        /\ Cardinality({BadKey, NonStringItem} \cap ntQueue.dirty) < MaxMalformed
        /\ ntQueue' = QueueAdd(ntQueue, item)
        /\ lastSync' = NoSync
        /\ UNCHANGED <<now, ntStore, cmStore, nodeState, ctrlGraphs>>
        /\ UNCHANGED auxVars

\* what one run of processNextWorkItem leaves, q being the queue it leaves
WorkerStep(r, item, q) ==
    /\ ntQueue' = q
    /\ ntStore' = IF r.out.applied
                  THEN [ntStore EXCEPT ![<<r.out.mutated.namespace, r.out.mutated.name>>]
                                           = r.out.mutated]
                  ELSE ntStore
    /\ IF r.out.graphs # NoGraphs
       THEN /\ ZoneMap' = r.out.graphs.ZoneMap
            /\ regionGraph' = r.out.graphs.regionGraph
            /\ zoneGraph' = r.out.graphs.zoneGraph
            /\ nodeGraph' = r.out.graphs.nodeGraph
       ELSE UNCHANGED ctrlGraphs
    /\ lastSync' = [acted |-> TRUE, item |-> item, synced |-> r.synced,
                    result |-> r.result,
                    failuresBefore |-> NumRequeues(ntQueue, item),
                    out |-> r.out]
    /\ UNCHANGED <<now, cmStore, nodeState>>
    /\ UNCHANGED auxVars

\* a worker takes one item off the queue and handles it
ProcessNextWorkItem ==
    /\ run.workers # {}
    /\ ntQueue.queue # << >>
    /\ \E fault \in Faults, order \in NodeLists(nodeStore) :
         \E r \in { processNextWorkItem(ntQueue, CtrlState, fault, order) } :
            /\ r.out.requeues > 0 => NumRequeues(ntQueue, Head(ntQueue.queue)) < MaxRequeues
            /\ WorkerStep(r, Head(ntQueue.queue), r.queue)

\* the rate limiter's record of an item, followed only up to MaxRequeues
\* failures: from there on its delay is taken to have reached the maximum
CapFailures(q) ==
    [q EXCEPT !.failures = [i \in DOMAIN @ |-> IF @[i] > MaxRequeues THEN MaxRequeues ELSE @[i]]]

\* processNextWorkItem as a worker runs it without end
ProcessNextWorkItemCapped ==
    /\ run.workers # {}
    /\ ntQueue.queue # << >>
    /\ \E fault \in Faults, order \in NodeLists(nodeStore) :
         \E r \in { processNextWorkItem(ntQueue, CtrlState, fault, order) } :
            WorkerStep(r, Head(ntQueue.queue), CapFailures(r.queue))

\* a workload instance of the AppGroup is scheduled (pod add/update event);
\* the controller registers handlers for NetworkTopology and Node only
PodScheduled ==
    \E p \in PodNames, n \in DOMAIN nodeStore :
        /\ pods[p] = ""
        /\ pods' = [pods EXCEPT ![p] = n]
        /\ lastSync' = NoSync
        /\ UNCHANGED <<now, ntStore, cmStore, nodeStore, nodeCount, topologyMap,
                       ctrlGraphs, ntQueue>>
        /\ UNCHANGED auxVars

\* a workload instance is deleted (pod delete event)
PodDeleted ==
    \E p \in PodNames :
        /\ pods[p] # ""
        /\ pods' = [pods EXCEPT ![p] = ""]
        /\ lastSync' = NoSync
        /\ UNCHANGED <<now, ntStore, cmStore, nodeStore, nodeCount, topologyMap,
                       ctrlGraphs, ntQueue>>
        /\ UNCHANGED auxVars

(***************************************************************************)
(* Node events.  The informer updates its store, then calls the handler    *)
(* on its own goroutine; a handler call is three steps: Lock, the          *)
(* function literal up to the deferred Unlock, and the log line that       *)
(* follows it.                                                             *)
(***************************************************************************)
Call(fn, node) == [fn |-> fn, node |-> node]

\* mutant: only a change of zone counts
nodeUpdatedOnZoneChange(old, new) ==
    IF GetNodeZone(old) = GetNodeZone(new)
    THEN << >>
    ELSE << Call("nodeDeleted", old), Call("nodeAdded", new) >>

\* the calls nodeUpdated makes: none when region and zone are unchanged
nodeUpdated(old, new) ==
    IF GetNodeZone(old) = GetNodeZone(new) /\ GetNodeRegion(old) = GetNodeRegion(new)
    THEN << >>
    ELSE << Call("nodeDeleted", old), Call("nodeAdded", new) >>

\* mutant: Lock returns whoever holds the lock
CanLockAlways(l) == TRUE

\* sync.RWMutex.Lock returns once no thread holds the lock
CanLock(l) == l = ""

Access(thread, field, kind) ==
    [thread |-> thread, field |-> field, kind |-> kind, held |-> lock = thread]

\* the node informer reports a change of a node's labels and calls
\* nodeUpdated, while fewer than limit notifications have been delivered
NodeUpdateWithin(limit, choices) ==
    \E n \in DOMAIN nodeStore, l \in choices :
        /\ handler.calls = << >>
        /\ handler.events < limit
        /\ nodeStore' = [nodeStore EXCEPT ![n] = l]
        /\ handler' = [handler EXCEPT !.calls = nodeUpdated(NodeOf(nodeStore, n),
                                                            NodeOf(nodeStore', n)),
                                      !.events = @ + 1,
                                      !.last = [event |-> "update", count |-> nodeCount]]
        /\ UNCHANGED <<now, ntStore, cmStore, nodeCount, topologyMap, ctrlGraphs, ntQueue,
                       pods, lastSync, run, lock, pc, local, access, passes, find, conv, util>>

NodeUpdateEvent == NodeUpdateWithin(MaxNodeEvents, LabelChoices)

\* ctrl.lock.Lock() of nodeAdded and nodeDeleted
HandlerLock ==
    /\ handler.calls # << >>
    /\ handler.step = "idle"
    /\ CanLock(lock)
    /\ lock' = Informer
    /\ handler' = [handler EXCEPT !.step = "locked"]
    /\ UNCHANGED <<now, ntStore, cmStore, nodeState, ctrlGraphs, ntQueue, lastSync,
                   run, pc, local, access, passes, find, conv, util>>

\* nodeAdded, from the count to the deferred Unlock
nodeAdded ==
    /\ handler.calls # << >>
    /\ handler.step = "locked"
    /\ Head(handler.calls).fn = "nodeAdded"
    /\ nodeCount' = nodeCount + 1
    /\ topologyMap' =
          LET node == Head(handler.calls).node
          IN  IF GetNodeRegion(node) # "" /\ GetNodeZone(node) # ""
              THEN topologyMap \cup {<<GetNodeRegion(node), GetNodeZone(node)>>}
              ELSE topologyMap
    /\ access' = Access(Informer, "nodeCount", "write")
    /\ lock' = ""
    /\ handler' = [handler EXCEPT !.step = "log"]
    /\ UNCHANGED <<now, ntStore, cmStore, nodeStore, pods, ctrlGraphs, ntQueue, lastSync,
                   run, pc, local, passes, find, conv, util>>

\* nodeDeleted, from the count to the deferred Unlock
nodeDeleted ==
    /\ handler.calls # << >>
    /\ handler.step = "locked"
    /\ Head(handler.calls).fn = "nodeDeleted"
    /\ nodeCount' = nodeCount - 1
    /\ access' = Access(Informer, "nodeCount", "write")
    /\ lock' = ""
    /\ handler' = [handler EXCEPT !.step = "log"]
    /\ UNCHANGED <<now, ntStore, cmStore, nodeStore, topologyMap, pods, ctrlGraphs,
                   ntQueue, lastSync, run, pc, local, passes, find, conv, util>>

\* the klog.V(5).Infof that ends nodeAdded and nodeDeleted: its arguments,
\* ctrl.nodeCount among them, are evaluated after the Unlock
HandlerLog ==
    /\ handler.calls # << >>
    /\ handler.step = "log"
    /\ access' = Access(Informer, "nodeCount", "read")
    /\ handler' = [handler EXCEPT !.calls = Tail(@), !.step = "idle"]
    /\ UNCHANGED <<now, ntStore, cmStore, nodeState, ctrlGraphs, ntQueue, lastSync,
                   run, lock, pc, local, passes, find, conv, util>>

(***************************************************************************)
(* The node handlers under any sequence of node notifications              *)
(***************************************************************************)
\* the number of node notifications delivered in one behaviour
MaxNodeChanges == 3

\* cache.DeletedFinalStateUnknown: what a delete notification carries when
\* the informer learnt of the deletion from a relist
DeletedFinalStateUnknown(node) == [Key |-> node.name, Obj |-> node]

\* nodeDeleted up to its function literal: the type assertion and the key
\* function; the calls that go on to the locked part
nodeDeletedChecks(obj) ==
    IF "Obj" \in DOMAIN obj THEN << >> ELSE << Call("nodeDeleted", obj) >>

\* the node informer reports a new node and calls nodeAdded, while fewer
\* than limit notifications have been delivered
NodeAddWithin(limit, choices) ==
    \E n \in NodeNames \ DOMAIN nodeStore, l \in choices :
        /\ handler.calls = << >>
        /\ handler.events < limit
        /\ nodeStore' = nodeStore @@ (n :> l)
        /\ handler' = [handler EXCEPT !.calls = << Call("nodeAdded", NodeOf(nodeStore', n)) >>,
                                      !.events = @ + 1,
                                      !.last = [event |-> "add", count |-> nodeCount]]
        /\ UNCHANGED <<now, ntStore, cmStore, nodeCount, topologyMap, ctrlGraphs, ntQueue,
                       pods, lastSync, run, lock, pc, local, access, passes, find, conv, util>>

NodeAddNotified == NodeAddWithin(MaxNodeChanges, LabelChoices)

\* the node informer reports the deletion of a node and calls nodeDeleted
\* with the node, or with the DeletedFinalStateUnknown that wraps it
NodeDeleteWithin(limit) ==
    \E n \in DOMAIN nodeStore, unknown \in BOOLEAN :
        /\ handler.calls = << >>
        /\ handler.events < limit
        /\ nodeStore' = [m \in DOMAIN nodeStore \ {n} |-> nodeStore[m]]
        /\ handler' = [handler EXCEPT
              !.calls = nodeDeletedChecks(IF unknown
                                          THEN DeletedFinalStateUnknown(NodeOf(nodeStore, n))
                                          ELSE NodeOf(nodeStore, n)),
              !.events = @ + 1,
              !.last = [event |-> "delete", count |-> nodeCount]]
        /\ UNCHANGED <<now, ntStore, cmStore, nodeCount, topologyMap, ctrlGraphs, ntQueue,
                       pods, lastSync, run, lock, pc, local, access, passes, find, conv, util>>

\* the label changes reported: those of LabelChoices, the loss of the label
\* map, and a change of an unrelated label only
UpdateChoices ==
    LabelChoices \cup
    { [Labels |-> NilLabels],
      [Labels |-> MakeLabels(NewNode("r1", "z1").Labels.map
                             @@ ("kubernetes.io/hostname" :> "n1"))] }

NodeDeleteNotified == NodeDeleteWithin(MaxNodeChanges)

NodeUpdateNotified == NodeUpdateWithin(MaxNodeChanges, UpdateChoices)

InitNodes ==
    /\ Constructor({<< >>} \cup NodeConfigs, NtNames, Started)
    /\ find = NoFind /\ conv = NoConv /\ util = NoUtil

NextNodes ==
    \/ NodeAddNotified
    \/ NodeUpdateNotified
    \/ NodeDeleteNotified
    \/ HandlerLock
    \/ nodeAdded
    \/ nodeDeleted
    \/ HandlerLog

SpecNodes == InitNodes /\ [][NextNodes]_vars

(***************************************************************************)
(* One recomputation pass (updateGraph, getRegionWeights, getZoneWeights)  *)
(* over the nodes as the lister returns them, under the lock               *)
(***************************************************************************)
\* the node sets the passes are tried on
PassConfigs ==
    NodeConfigs \cup
    { ( "n1" :> NewNode("r1", "z1") ) @@ ( "n2" :> NewNode("", "") ),
      ( "n1" :> NewNode("r1", "z1") ) @@ ( "n2" :> NewNode("r2", "z3") )
          @@ ( "n3" :> NewNode("r3", "z4") ) }

PassRecord(store, data, g, nodes) ==
    [nodes |-> store, data |-> data, ZoneMap |-> g.ZoneMap, regionGraph |-> g.regionGraph,
     zoneGraph |-> g.zoneGraph,
     region |-> getRegionWeights(g.regionGraph, nodes),
     zone |-> getZoneWeights(g.zoneGraph, g.ZoneMap, nodes)]

\* the last two passes
LastTwo(l) == IF Len(l) > 2 THEN Tail(l) ELSE l

RecomputePass ==
    /\ cmStore.present
    /\ CanLock(lock)
    /\ \E order \in NodeLists(nodeStore) :
         \E g \in { updateGraph(ZoneMap, ListNodes(nodeStore, order), cmStore.data) } :
            /\ ZoneMap' = g.ZoneMap
            /\ regionGraph' = g.regionGraph
            /\ zoneGraph' = g.zoneGraph
            /\ nodeGraph' = g.nodeGraph
            /\ passes' = LastTwo(Append(passes,
                             PassRecord(nodeStore, cmStore.data, g,
                                        ListNodes(nodeStore, order))))
    /\ UNCHANGED <<now, ntStore, cmStore, nodeState, ntQueue, lastSync,
                   run, lock, pc, local, handler, access, find, conv, util>>

InitPass == Constructor(PassConfigs, NtNames, Started) /\ find = NoFind /\ conv = NoConv /\ util = NoUtil

NextPass ==
    \/ ConfigMapSet
    \/ NodeUpdateEvent
    \/ HandlerLock
    \/ nodeAdded
    \/ nodeDeleted
    \/ HandlerLog
    \/ RecomputePass

SpecPass == InitPass /\ [][NextPass]_vars

(***************************************************************************)
(* The lookups of pkg/networkaware/util on sorted lists                    *)
(***************************************************************************)
Names == { NameOrder[i] : i \in 1..Len(NameOrder) }

\* the lists of keys in ascending order without duplicates
SortedKeyLists ==
    { l \in UNION { [1..n -> Names] : n \in 0..MaxListLen } :
        \A i \in 1..(Len(l) - 1) : StrLess(l[i], l[i + 1]) }

\* the entry each kind of list holds for a key
TopologyInfoOf(key) == [workloadName |-> key, index |-> StrRank(key)]

OriginInfoOf(key) == OriginInfo(key, << CostInfo(key, StrRank(key), 0, 1) >>)

TopologyKeyInfoOf(key) == [topologyKey |-> key, originCosts |-> << OriginInfoOf(key) >>]

CostInfoOf(key) == CostInfo(key, 10 * StrRank(key), 0, 1)

Lookup ==
    /\ ~find.done
    /\ find' = [find EXCEPT
          !.done = TRUE,
          !.index = FindPodOrder([i \in 1..Len(find.keys) |-> TopologyInfoOf(find.keys[i])],
                                 find.key),
          !.costs = FindOriginCosts([i \in 1..Len(find.keys) |-> OriginInfoOf(find.keys[i])],
                                    find.key),
          !.originCosts =
              FindTopologyKey([i \in 1..Len(find.keys) |-> TopologyKeyInfoOf(find.keys[i])],
                              find.key),
          !.bandwidthCapacity =
              FindOriginBandwidthCapacity([i \in 1..Len(find.keys) |-> CostInfoOf(find.keys[i])],
                                          find.key)]
    /\ UNCHANGED <<now, ntStore, cmStore, nodeState, ctrlGraphs, ntQueue, lastSync,
                   run, lock, pc, local, handler, access, passes, conv, util>>

InitFind ==
    /\ Constructor(NodeConfigs, NtNames, Constructed)
    /\ conv = NoConv /\ util = NoUtil
    /\ find \in [keys : SortedKeyLists, key : Names, done : {FALSE}, index : {0},
                  costs : {<< >>}, originCosts : {<< >>}, bandwidthCapacity : {0}]

NextFind == Lookup

SpecFind == InitFind /\ [][NextFind]_vars

\* the lists of keys in any order, duplicates included
AnyKeyLists == UNION { [1..n -> Names] : n \in 0..MaxListLen }

\* the lookups called on lists that need not be sorted
InitFindAny ==
    /\ Constructor(NodeConfigs, NtNames, Constructed)
    /\ conv = NoConv /\ util = NoUtil
    /\ find \in [keys : AnyKeyLists, key : Names, done : {FALSE}, index : {0},
                  costs : {<< >>}, originCosts : {<< >>}, bandwidthCapacity : {0}]

SpecFindAny == InitFindAny /\ [][NextFind]_vars

(***************************************************************************)
(* The generated conversions between the v1beta1 (external) and the        *)
(* internal plugin arguments.  A value is a function from field names; a   *)
(* pointer is the empty sequence (nil) or the sequence of the value it     *)
(* points to.                                                              *)
(***************************************************************************)
\* the number of conversions applied to a value in turn
MaxConversions == 2

Nil == << >>

PointerKinds == {"int64", "string", "float64"}

ZeroValue(kind) == IF kind = "string" THEN "" ELSE 0

\* mutant: the pointed-to value is dropped
Convert_Pointer_To_Zero(in, kind) == ZeroValue(kind)

\* v1.Convert_Pointer_int64_To_int64, _string_To_string, _float64_To_float64
Convert_Pointer_To_Value(in, kind) == IF in = Nil THEN ZeroValue(kind) ELSE in[1]

\* mutant: a zero value becomes an absent field
Convert_Value_To_Pointer_OmitZero(in, kind) == IF in = ZeroValue(kind) THEN Nil ELSE <<in>>

\* v1.Convert_int64_To_Pointer_int64, _string_To_Pointer_string,
\* _float64_To_Pointer_float64
Convert_Value_To_Pointer(in, kind) == <<in>>

\* the fields each pair of conversion functions handles, in the order of the
\* code, and how: a pointer-optional scalar, a plain assignment or cast, the
\* nested MetricProviderSpec, the ScoringStrategy reached through
\* unsafe.Pointer, or a field of the external type the conversions skip
Schemas ==
    [ CoschedulingArgs |->
          << <<"PermitWaitingTimeSeconds", "int64">>,
             <<"DeniedPGExpirationTimeSeconds", "int64">>,
             <<"KubeMaster", "externalOnly">>,
             <<"KubeConfigPath", "externalOnly">> >>,
      LoadVariationRiskBalancingArgs |->
          << <<"MetricProvider", "MetricProviderSpec">>,
             <<"WatcherAddress", "string">>,
             <<"SafeVarianceMargin", "float64">>,
             <<"SafeVarianceSensitivity", "float64">> >>,
      MetricProviderSpec |->
          << <<"Type", "cast">>, <<"Address", "string">>, <<"Token", "string">> >>,
      NetworkOverheadArgs |->
          << <<"KubeConfigPath", "string">>,
             <<"MasterOverride", "string">>,
             <<"Namespaces", "cast">>,
             <<"WeightsName", "string">>,
             <<"NetworkTopologyName", "string">> >>,
      NodeResourceTopologyMatchArgs |->
          << <<"KubeConfigPath", "externalOnly">>,
             <<"MasterOverride", "externalOnly">>,
             <<"ScoringStrategy", "unsafePointer">> >>,
      NodeResourcesAllocatableArgs |->
          << <<"Resources", "cast">>, <<"Mode", "cast">> >>,
      ScoringStrategy |->
          << <<"Type", "cast">>, <<"Resources", "cast">> >>,
      TargetLoadPackingArgs |->
          << <<"DefaultRequests", "cast">>,
             <<"DefaultRequestsMultiplier", "string">>,
             <<"TargetUtilization", "int64">>,
             <<"MetricProvider", "MetricProviderSpec">>,
             <<"WatcherAddress", "string">> >>,
      TopologicalSortArgs |->
          << <<"KubeConfigPath", "string">>,
             <<"MasterOverride", "string">>,
             <<"Namespaces", "cast">> >> ]

KindOf(schema, name) ==
    LET fs == Schemas[schema]
    IN  fs[CHOOSE i \in DOMAIN fs : fs[i][1] = name][2]

\* the fields of the internal type
InternalFields(schema) ==
    LET fs == Schemas[schema]
    IN  { fs[i][1] : i \in { j \in DOMAIN fs : fs[j][2] # "externalOnly" } }

ExternalFields(schema) ==
    LET fs == Schemas[schema]
    IN  { fs[i][1] : i \in DOMAIN fs }

\* autoConvert_v1beta1_<schema>_To_config_<schema>
RECURSIVE autoConvert_v1beta1_To_config(_, _)
autoConvert_v1beta1_To_config(schema, in) ==
    [n \in InternalFields(schema) |->
        IF KindOf(schema, n) \in PointerKinds
        THEN Convert_Pointer_To_Value(in[n], KindOf(schema, n))
        ELSE IF KindOf(schema, n) = "MetricProviderSpec"
        THEN autoConvert_v1beta1_To_config("MetricProviderSpec", in[n])
        ELSE IF KindOf(schema, n) = "unsafePointer"
        THEN in[n][1]
        ELSE in[n]]

\* autoConvert_config_<schema>_To_v1beta1_<schema>, writing into a new
\* external value
RECURSIVE autoConvert_config_To_v1beta1(_, _)
autoConvert_config_To_v1beta1(schema, in) ==
    [n \in ExternalFields(schema) |->
        IF KindOf(schema, n) \in PointerKinds
        THEN Convert_Value_To_Pointer(in[n], KindOf(schema, n))
        ELSE IF KindOf(schema, n) = "MetricProviderSpec"
        THEN autoConvert_config_To_v1beta1("MetricProviderSpec", in[n])
        ELSE IF KindOf(schema, n) = "unsafePointer"
        THEN <<in[n]>>
        ELSE IF KindOf(schema, n) = "externalOnly"
        THEN Nil
        ELSE in[n]]

\* the dereference of a nil ScoringStrategy pointer
Panics(schema, in) ==
    \E n \in ExternalFields(schema) :
        KindOf(schema, n) = "unsafePointer" /\ in[n] = Nil

\* the values a field may hold on either side
RECURSIVE ValuesOf(_, _, _)
FieldValues(kind, side) ==
    LET scalars == IF kind = "string" THEN {"", "s"} ELSE {0, 7}
    IN  IF kind \in PointerKinds
        THEN IF side = "internal" THEN scalars
             ELSE {Nil} \cup { <<v>> : v \in scalars }
        ELSE IF kind = "MetricProviderSpec"
        THEN ValuesOf("MetricProviderSpec", side, Len(Schemas.MetricProviderSpec))
        ELSE IF kind = "unsafePointer"
        THEN LET vs == ValuesOf("ScoringStrategy", "internal", Len(Schemas.ScoringStrategy))
             IN  IF side = "internal" THEN vs ELSE {Nil} \cup { <<v>> : v \in vs }
        ELSE IF kind = "externalOnly"
        THEN {Nil, <<"s">>}
        ELSE {"v0", "v1"}

\* the values of a type over the first i fields of its schema
ValuesOf(schema, side, i) ==
    IF i = 0 THEN { << >> }
    ELSE LET f == Schemas[schema][i]
             rest == ValuesOf(schema, side, i - 1)
         IN  IF side = "internal" /\ f[2] = "externalOnly" THEN rest
             ELSE { r @@ (f[1] :> v) : r \in rest, v \in FieldValues(f[2], side) }

\* a value of one of the schemas, of either side, not yet converted
InitConv ==
    /\ Constructor(NodeConfigs, NtNames, Constructed)
    /\ find = NoFind /\ util = NoUtil
    /\ \E schema \in DOMAIN Schemas, side \in {"internal", "external"} :
         \E v \in ValuesOf(schema, side, Len(Schemas[schema])) :
            conv = [schema |-> schema, start |-> side, side |-> side,
                    vals |-> <<v>>, err |-> "nil", panic |-> FALSE,
                    aliases |-> {}, written |-> 0]

\* the fields of the external value that the conversion sets to the address
\* of the input's field: (*ScoringStrategy)(unsafe.Pointer(&in.ScoringStrategy))
AddressOfInput(schema) ==
    { n \in InternalFields(schema) : KindOf(schema, n) = "unsafePointer" }

\* Convert_config_<schema>_To_v1beta1_<schema> of the value last obtained;
\* aliases records which output holds a pointer into which input
Convert_config_To_v1beta1 ==
    /\ conv.side = "internal"
    /\ Len(conv.vals) <= MaxConversions
    /\ conv' = [conv EXCEPT
          !.vals = Append(@, autoConvert_config_To_v1beta1(conv.schema,
                                                           conv.vals[Len(conv.vals)])),
          !.side = "external",
          !.err = "nil",
          !.aliases = IF AddressOfInput(conv.schema) = {} THEN @
                      ELSE @ \cup {<<Len(conv.vals), Len(conv.vals) + 1>>}]
    /\ UNCHANGED <<now, ntStore, cmStore, nodeState, ctrlGraphs, ntQueue, lastSync,
                   run, lock, pc, local, handler, access, passes, find, util>>

\* Convert_v1beta1_<schema>_To_config_<schema> of the value last obtained
Convert_v1beta1_To_config ==
    /\ conv.side = "external"
    /\ ~conv.panic
    /\ Len(conv.vals) <= MaxConversions
    /\ IF Panics(conv.schema, conv.vals[Len(conv.vals)])
       THEN conv' = [conv EXCEPT !.panic = TRUE]
       ELSE conv' = [conv EXCEPT
               !.vals = Append(@, autoConvert_v1beta1_To_config(conv.schema,
                                                                conv.vals[Len(conv.vals)])),
               !.side = "internal",
               !.err = "nil"]
    /\ UNCHANGED <<now, ntStore, cmStore, nodeState, ctrlGraphs, ntQueue, lastSync,
                   run, lock, pc, local, handler, access, passes, find, util>>

NextConv == Convert_config_To_v1beta1 \/ Convert_v1beta1_To_config

SpecConv == InitConv /\ [][NextConv]_vars

\* the side of the i-th value of a chain of conversions
SideAt(i) ==
    IF i % 2 = 1 THEN conv.start
    ELSE IF conv.start = "internal" THEN "external" ELSE "internal"

\* the values that share the memory of the ScoringStrategy of the i-th value:
\* itself, the outputs that point into it and the input it points into
SharesMemory(i) ==
    {i} \cup { a[2] : a \in { b \in conv.aliases : b[1] = i } }
        \cup { a[1] : a \in { b \in conv.aliases : b[2] = i } }

\* the caller assigns to the ScoringStrategy of one of the values, directly
\* for an internal value and through the pointer for an external one; the
\* write is seen through every value that shares the memory
WriteScoringStrategy ==
    /\ conv.written = 0
    /\ ~conv.panic
    /\ \E n \in AddressOfInput(conv.schema), i \in 1..Len(conv.vals),
          v \in ValuesOf("ScoringStrategy", "internal", Len(Schemas.ScoringStrategy)) :
          /\ conv.vals[i][n] \notin {Nil, v, <<v>>}
          /\ conv' = [conv EXCEPT
                !.vals = [j \in 1..Len(conv.vals) |->
                            IF j \in SharesMemory(i)
                            THEN [conv.vals[j] EXCEPT
                                    ![n] = IF SideAt(j) = "external" THEN <<v>> ELSE v]
                            ELSE conv.vals[j]],
                !.written = i]
    /\ UNCHANGED <<now, ntStore, cmStore, nodeState, ctrlGraphs, ntQueue, lastSync,
                   run, lock, pc, local, handler, access, passes, find, util>>

NextAlias == Convert_config_To_v1beta1 \/ Convert_v1beta1_To_config \/ WriteScoringStrategy

SpecAlias == InitConv /\ [][NextAlias]_vars

(***************************************************************************)
(* The helper functions on nodes and pods, called on node and pod objects  *)
(* of every shape.                                                         *)
(***************************************************************************)
\* label maps: nil, or any combination of an absent, an empty and a set
\* region label, zone label and unrelated label
LabelMaps ==
    {NilLabels} \cup
    { MakeLabels(r @@ z @@ o) :
        r \in {<< >>} \cup { LabelTopologyRegion :> v : v \in {"", "r1", "r2"} },
        z \in {<< >>} \cup { LabelTopologyZone :> v : v \in {"", "z1", "z2"} },
        o \in {<< >>, "kubernetes.io/hostname" :> "n1"} }

NodeObjects == { [Labels |-> l] : l \in LabelMaps }

PodObjects == { [Spec |-> [NodeName |-> n]] : n \in {""} \cup NodeNames }

InitUtil ==
    /\ Constructor(NodeConfigs, NtNames, Constructed)
    /\ find = NoFind /\ conv = NoConv
    /\ \E node \in NodeObjects, pod \in PodObjects :
          util = [node |-> node, pod |-> pod, out |-> << >>]

GetNodeRegionCalled ==
    /\ "region" \notin DOMAIN util.out
    /\ util' = [util EXCEPT !.out = @ @@ ("region" :> GetNodeRegion(util.node))]
    /\ UNCHANGED <<now, ntStore, cmStore, nodeState, ctrlGraphs, ntQueue, lastSync,
                   run, lock, pc, local, handler, access, passes, find, conv>>

GetNodeZoneCalled ==
    /\ "zone" \notin DOMAIN util.out
    /\ util' = [util EXCEPT !.out = @ @@ ("zone" :> GetNodeZone(util.node))]
    /\ UNCHANGED <<now, ntStore, cmStore, nodeState, ctrlGraphs, ntQueue, lastSync,
                   run, lock, pc, local, handler, access, passes, find, conv>>

AssignedPodCalled ==
    /\ "assigned" \notin DOMAIN util.out
    /\ util' = [util EXCEPT !.out = @ @@ ("assigned" :> AssignedPod(util.pod))]
    /\ UNCHANGED <<now, ntStore, cmStore, nodeState, ctrlGraphs, ntQueue, lastSync,
                   run, lock, pc, local, handler, access, passes, find, conv>>

NextUtil == GetNodeRegionCalled \/ GetNodeZoneCalled \/ AssignedPodCalled

SpecUtil == InitUtil /\ [][NextUtil]_vars

(***************************************************************************)
(* processNextWorkItem as each worker goroutine steps through it: Get, the *)
(* fetches of syncHandler, the two sections under ctrl.lock, the patch     *)
(* step, the deferred Done                                                 *)
(***************************************************************************)
\* Get, the type check, and syncHandler from the key split to the config
\* map: when one of them ends the run, the deferred functions follow at once;
\* otherwise the worker goes on with what it fetched
WorkerGetWith(faults) ==
    \E w \in run.workers, fault \in faults, order \in NodeLists(nodeStore) :
        /\ pc[w] = "idle"
        /\ ntQueue.queue # << >>
        /\ IF ~Head(ntQueue.queue).str
           THEN /\ ntQueue' = QueueDone(DropNonString(QueueGet(ntQueue), Head(ntQueue.queue)),
                                        Head(ntQueue.queue))
                /\ UNCHANGED <<local, pc>>
           ELSE \E f \in { Fetches(Head(ntQueue.queue), CtrlState, fault) } :
                  IF f.exit = "fetched"
                  THEN /\ ntQueue' = QueueGet(ntQueue)
                       /\ local' = [local EXCEPT ![w] =
                                       [item |-> Head(ntQueue.queue),
                                        nt |-> f.fetched, ntCopy |-> f.fetched,
                                        nodes |-> ListNodes(nodeStore, order),
                                        data |-> cmStore.data]]
                       /\ pc' = [pc EXCEPT ![w] = "lockCount"]
                  ELSE /\ ntQueue' = CapFailures(AfterSync(QueueGet(ntQueue),
                                                          Head(ntQueue.queue), f).queue)
                       /\ UNCHANGED <<local, pc>>
        /\ UNCHANGED <<now, ntStore, cmStore, nodeState, ctrlGraphs, lastSync,
                       run, lock, handler, access, passes, find, conv, util>>

\* ctrl.lock.Lock(), before the node count and before the weights
WorkerLock ==
    \E w \in run.workers :
        /\ pc[w] \in {"lockCount", "lockWeights"}
        /\ CanLock(lock)
        /\ lock' = w
        /\ pc' = [pc EXCEPT ![w] = IF @ = "lockCount" THEN "count" ELSE "rebuild"]
        /\ UNCHANGED <<now, ntStore, cmStore, nodeState, ctrlGraphs, ntQueue, lastSync,
                       run, local, handler, access, passes, find, conv, util>>

\* ntCopy.Status.NodeCount = ctrl.nodeCount, and the Unlock
WorkerCount ==
    \E w \in run.workers :
        /\ pc[w] = "count"
        /\ local' = [local EXCEPT ![w].ntCopy.nodeCount = nodeCount]
        /\ access' = Access(w, "nodeCount", "read")
        /\ lock' = ""
        /\ pc' = [pc EXCEPT ![w] = "lockWeights"]
        /\ UNCHANGED <<now, ntStore, cmStore, nodeState, ctrlGraphs, ntQueue, lastSync,
                       run, handler, passes, find, conv, util>>

\* mutant: updateGraph returns an error
updateGraphFails(zoneMap, nodes, data) == "other"

\* the error updateGraph returns: its only return statement is return nil
updateGraphErr(zoneMap, nodes, data) == "nil"

\* how a recomputation branch goes on after err := updateGraph(...): on an
\* error it returns at once, with the lock as it is; otherwise it goes on to
\* the weights
RebuildExit(w, err) ==
    IF err # "nil" THEN [returns |-> TRUE, lock |-> w, pc |-> "idle"]
    ELSE [returns |-> FALSE, lock |-> w, pc |-> "weights"]

\* updateGraph, in either recomputation branch, and the test of its error;
\* the err of the branch is a variable of its own, so that the deferred
\* function of syncHandler re-adds nothing when the branch returns it
WorkerRebuild ==
    \E w \in run.workers :
        /\ pc[w] = "rebuild"
        /\ ShouldRecompute(local[w].nt, local[w].ntCopy)
        /\ \E g \in { updateGraph(ZoneMap, local[w].nodes, local[w].data) } :
            /\ ZoneMap' = g.ZoneMap
            /\ regionGraph' = g.regionGraph
            /\ zoneGraph' = g.zoneGraph
            /\ nodeGraph' = g.nodeGraph
            /\ access' = Access(w, "graphs", "write")
        /\ \E exit \in { RebuildExit(w, updateGraphErr(ZoneMap, local[w].nodes,
                                                        local[w].data)) } :
            /\ pc' = [pc EXCEPT ![w] = exit.pc]
            /\ lock' = exit.lock
            /\ IF exit.returns
               THEN /\ ntQueue' = QueueDone(ntQueue, local[w].item)
                    /\ local' = [local EXCEPT ![w] = NoLocal]
               ELSE UNCHANGED <<ntQueue, local>>
        /\ UNCHANGED <<now, ntStore, cmStore, nodeState, lastSync,
                       run, handler, passes, find, conv, util>>

\* the new Spec.Weights from the graphs as they are, and WeightCalculationTime
WorkerWeights ==
    \E w \in run.workers :
        /\ pc[w] = "weights"
        /\ local' = [local EXCEPT ![w].ntCopy =
                        Recompute(@, [nodeGraph |-> nodeGraph, regionGraph |-> regionGraph,
                                      zoneGraph |-> zoneGraph, ZoneMap |-> ZoneMap],
                                  local[w].nodes, now).nt]
        /\ access' = Access(w, "graphs", "read")
        /\ pc' = [pc EXCEPT ![w] = "unlock"]
        /\ UNCHANGED <<now, ntStore, cmStore, nodeState, ctrlGraphs, ntQueue, lastSync,
                       run, lock, handler, passes, find, conv, util>>

\* ctrl.lock.Unlock() after the weights, recomputed or not
WorkerUnlock ==
    \E w \in run.workers :
        /\ \/ pc[w] = "unlock"
           \/ pc[w] = "rebuild" /\ ~ShouldRecompute(local[w].nt, local[w].ntCopy)
        /\ lock' = ""
        /\ pc' = [pc EXCEPT ![w] = "patch"]
        /\ UNCHANGED <<now, ntStore, cmStore, nodeState, ctrlGraphs, ntQueue, lastSync,
                       run, local, handler, access, passes, find, conv, util>>

\* patchNetworkTopology, Forget, the return, and the deferred functions of
\* syncHandler and processNextWorkItem
WorkerPatchWith(faults) ==
    \E w \in run.workers, fault \in faults :
        /\ pc[w] = "patch"
        /\ \E out \in { PatchStep(local[w].item, local[w].nt,
                                [nt |-> local[w].ntCopy, recomputed |-> FALSE,
                                 graphs |-> NoGraphs], fault) } :
            /\ ntStore' = IF out.applied
                          THEN [ntStore EXCEPT ![<<out.mutated.namespace, out.mutated.name>>]
                                                   = out.mutated]
                          ELSE ntStore
            /\ ntQueue' = CapFailures(AfterSync(ntQueue, local[w].item, out).queue)
        /\ local' = [local EXCEPT ![w] = NoLocal]
        /\ pc' = [pc EXCEPT ![w] = "idle"]
        /\ UNCHANGED <<now, cmStore, nodeState, ctrlGraphs, lastSync,
                       run, lock, handler, access, passes, find, conv, util>>

WorkerGet == WorkerGetWith({"none", "ntGet", "list", "cmGet"})

WorkerPatch == WorkerPatchWith({"none", "createPatch", "patch"})

WorkerNext ==
    \/ WorkerGet
    \/ WorkerLock
    \/ WorkerCount
    \/ WorkerRebuild
    \/ WorkerWeights
    \/ WorkerUnlock
    \/ WorkerPatch

\* the controller running over a cluster of one node, two NetworkTopologies
\* created and their keys queued, the config map of measurements present
InitWorkers ==
    /\ now = 1
    /\ ntStore = [k \in WorkerNtNames |-> NewNetworkTopology(k, << >>, 1)]
    /\ cmStore = ConfigMap(MeasuredData)
    /\ nodeStore = ( "n1" :> NewNode("r1", "z1") )
    /\ nodeCount = Cardinality(DOMAIN nodeStore)
    /\ topologyMap = TopologyKeysOf(nodeStore)
    /\ ZoneMap = {}
    /\ regionGraph = NewGraph
    /\ zoneGraph = NewGraph
    /\ nodeGraph = NewGraph
    /\ ntQueue = QueueAdd(QueueAdd(NewNamedRateLimitingQueue, NtKey), NtKeyB)
    /\ pods = [p \in PodNames |-> ""]
    /\ lastSync = NoSync
    /\ run = Started
    /\ lock = ""
    /\ pc = [w \in Workers |-> "idle"]
    /\ local = [w \in Workers |-> NoLocal]
    /\ handler = NoCalls
    /\ access = NoAccess
    /\ passes = << >>
    /\ find = NoFind /\ conv = NoConv /\ util = NoUtil

NextWorkers ==
    \/ NodeUpdateEvent
    \/ HandlerLock
    \/ nodeAdded
    \/ nodeDeleted
    \/ HandlerLog
    \/ WorkerNext

SpecWorkers == InitWorkers /\ [][NextWorkers]_vars

(***************************************************************************)
(* Run                                                                     *)
(***************************************************************************)
\* mutant: only the NetworkTopology cache is waited for
CachesSyncedNtOnly(r) == r.ntListerSynced

\* cache.WaitForCacheSync(stopCh, ctrl.ntListerSynced, ctrl.nodeListerSynced)
CachesSynced(r) == r.ntListerSynced /\ r.nodeListerSynced

\* Run is called and waits for the caches
RunCalled ==
    /\ run.pc = "constructed"
    /\ run' = [run EXCEPT !.pc = "waiting"]
    /\ UNCHANGED <<now, ntStore, cmStore, nodeState, ctrlGraphs, ntQueue, lastSync,
                   lock, pc, local, handler, access, passes, find, conv, util>>

\* an informer has delivered its initial list: its HasSynced turns true
CacheSynced ==
    /\ \/ ~run.ntListerSynced /\ run' = [run EXCEPT !.ntListerSynced = TRUE]
       \/ ~run.nodeListerSynced /\ run' = [run EXCEPT !.nodeListerSynced = TRUE]
    /\ UNCHANGED <<now, ntStore, cmStore, nodeState, ctrlGraphs, ntQueue, lastSync,
                   lock, pc, local, handler, access, passes, find, conv, util>>

\* stopCh is closed
StopChClosed ==
    /\ ~run.stopCh
    /\ run' = [run EXCEPT !.stopCh = TRUE]
    /\ UNCHANGED <<now, ntStore, cmStore, nodeState, ctrlGraphs, ntQueue, lastSync,
                   lock, pc, local, handler, access, passes, find, conv, util>>

\* WaitForCacheSync returns true: the workers are started
RunStartsWorkers ==
    /\ run.pc = "waiting"
    /\ CachesSynced(run)
    /\ run' = [run EXCEPT !.pc = "running", !.workers = Workers]
    /\ UNCHANGED <<now, ntStore, cmStore, nodeState, ctrlGraphs, ntQueue, lastSync,
                   lock, pc, local, handler, access, passes, find, conv, util>>

\* stopCh ends the wait for the caches or the running controller: Run
\* returns and its deferred ntQueue.ShutDown runs
RunReturns ==
    /\ run.pc \in {"waiting", "running"}
    /\ run.stopCh
    /\ run' = [run EXCEPT !.pc = "returned"]
    /\ ntQueue' = QueueShutDown(ntQueue)
    /\ UNCHANGED <<now, ntStore, cmStore, nodeState, ctrlGraphs, lastSync,
                   lock, pc, local, handler, access, passes, find, conv, util>>

\* Get returns quit: processNextWorkItem returns false, worker returns, and
\* wait.Until, its stop channel closed, ends the goroutine
WorkerQuit ==
    \E w \in run.workers :
        /\ pc[w] = "idle"
        /\ ntQueue.shuttingDown
        /\ ntQueue.queue = << >>
        /\ run' = [run EXCEPT !.workers = @ \ {w}]
        /\ UNCHANGED <<now, ntStore, cmStore, nodeState, ctrlGraphs, ntQueue, lastSync,
                       lock, pc, local, handler, access, passes, find, conv, util>>

InitRun == Constructor(NodeConfigs, NtNames, Constructed) /\ find = NoFind /\ conv = NoConv /\ util = NoUtil

NextRun ==
    \/ RunCalled
    \/ CacheSynced
    \/ StopChClosed
    \/ RunStartsWorkers
    \/ RunReturns
    \/ ntAdded
    \/ ntUpdated
    \/ ConfigMapSet
    \/ WorkerNext
    \/ WorkerQuit

SpecRun == InitRun /\ [][NextRun]_vars

\* the running controller of InitWorkers until it is stopped, its goroutines
\* scheduled for ever: Run, once stopCh is closed, and the workers
NextStop ==
    \/ ntUpdated
    \/ StopChClosed
    \/ RunReturns
    \/ WorkerNext
    \/ WorkerQuit

SpecStop ==
    /\ InitWorkers
    /\ [][NextStop]_vars
    /\ WF_vars(RunReturns)
    /\ WF_vars(WorkerNext \/ WorkerQuit)

(***************************************************************************)
(* The controller left to itself: a NetworkTopology has been created and   *)
(* its key queued, and no further NetworkTopology notification arrives.    *)
(* The config map may be created, nodes may come and go; the workers, the  *)
(* queue's delay timer and the informer's goroutine keep running.          *)
(***************************************************************************)
InitLive ==
    /\ now = 1
    /\ \E w \in WeightChoices : ntStore = [k \in NtNames |-> NewNetworkTopology(k, w, 1)]
    /\ cmStore = NoConfigMap
    /\ nodeStore = ( "n1" :> NewNode("r1", "z1") )
    /\ nodeCount = Cardinality(DOMAIN nodeStore)
    /\ topologyMap = TopologyKeysOf(nodeStore)
    /\ ZoneMap = {}
    /\ regionGraph = NewGraph
    /\ zoneGraph = NewGraph
    /\ nodeGraph = NewGraph
    /\ ntQueue = QueueAdd(NewNamedRateLimitingQueue, NtKey)
    /\ pods = [p \in PodNames |-> ""]
    /\ lastSync = NoSync
    /\ run = Started
    /\ lock = ""
    /\ pc = [w \in Workers |-> "idle"]
    /\ local = [w \in Workers |-> NoLocal]
    /\ handler = NoCalls
    /\ access = NoAccess
    /\ passes = << >>
    /\ find = NoFind /\ conv = NoConv /\ util = NoUtil

\* the worker steps with the syncs that succeed, that fail at the fetch of
\* the NetworkTopology and that fail at the patch
WorkerNextOrFails ==
    \/ WorkerGetWith({"none", "ntGet"})
    \/ WorkerLock
    \/ WorkerCount
    \/ WorkerRebuild
    \/ WorkerWeights
    \/ WorkerUnlock
    \/ WorkerPatchWith({"none", "patch"})

\* a step of worker w between its Get and its return
WorkerGoesOn(w) == WorkerNextOrFails /\ pc'[w] # pc[w]

\* the running controller of InitLive while NetworkTopology updates and
\* malformed items keep arriving; every worker goroutine is scheduled for
\* ever, and a worker that waits for ctrl.lock gets it (sync.RWMutex hands
\* the lock to a waiter that has waited long enough)
NextRequeue == ntUpdated \/ EnqueueMalformed \/ ConfigMapSet \/ WorkerNextOrFails

SpecRequeue ==
    /\ InitLive
    /\ [][NextRequeue]_vars
    /\ WF_vars(WorkerNextOrFails)
    /\ \A w \in Workers : SF_vars(WorkerGoesOn(w))

\* the workers' steps when no call fails for a reason other than not-found
WorkerNextSound ==
    \/ WorkerGetWith({"none"})
    \/ WorkerLock
    \/ WorkerCount
    \/ WorkerRebuild
    \/ WorkerWeights
    \/ WorkerUnlock
    \/ WorkerPatchWith({"none"})

\* the controller waiting for the config map: no node comes or goes
NextAwait ==
    \/ ConfigMapSet
    \/ DelayElapsed
    \/ WorkerNextSound

\* the worker goroutines and the delaying queue's timer goroutine are
\* scheduled for ever
SpecAwait ==
    /\ InitLive
    /\ [][NextAwait]_vars
    /\ WF_vars(WorkerNextSound)
    /\ WF_vars(DelayElapsed)

HandlerSteps == HandlerLock \/ nodeAdded \/ nodeDeleted \/ HandlerLog

\* the workers and the node handlers, the worker goroutines and the
\* informer's goroutine being scheduled for ever
\* a node is moved to another region and zone
NodeMoves == NodeUpdateWithin(MaxNodeEvents, {NewNode("r2", "z3")})

NextLock == NodeMoves \/ HandlerSteps \/ WorkerNextSound

SpecLock ==
    /\ InitWorkers
    /\ [][NextLock]_vars
    /\ WF_vars(WorkerNextSound)
    /\ WF_vars(HandlerSteps)

NodeAddArrives == NodeAddWithin(MaxNodeEvents, {NewNode("r2", "z3")})

NodeDeleteArrives == NodeDeleteWithin(MaxNodeEvents)

NextLive ==
    \/ ConfigMapSet
    \/ DelayElapsed
    \/ WorkerNextSound
    \/ NodeAddArrives
    \/ NodeDeleteArrives
    \/ HandlerSteps

\* the worker goroutines, the delaying queue's timer goroutine and the
\* informer's goroutine are scheduled for ever
SpecLive ==
    /\ InitLive
    /\ [][NextLive]_vars
    /\ WF_vars(WorkerNextSound)
    /\ WF_vars(DelayElapsed)
    /\ WF_vars(HandlerSteps)

\* the controller over the life of a NetworkTopology whose config map does
\* not exist, its workers and the timers of the delaying queue running for
\* ever (wait.Until restarts worker, the delaying queue fires every timer)
NextDeleted ==
    \/ Tick
    \/ ntAdded
    \/ ntUpdated
    \/ ntDeleted
    \/ DelayElapsed
    \/ ProcessNextWorkItemCapped

SpecDeleted ==
    /\ Init
    /\ [][NextDeleted]_vars
    /\ WF_vars(DelayElapsed)
    /\ WF_vars(ProcessNextWorkItemCapped)

Next ==
    \/ Tick
    \/ ntAdded
    \/ ntUpdated
    \/ ntDeleted
    \/ ConfigMapSet
    \/ ConfigMapDelete
    \/ DelayElapsed
    \/ EnqueueMalformed
    \/ ProcessNextWorkItem

Spec == Init /\ [][Next]_vars

\* the controller with the workload events of the AppGroup
NextPods ==
    \/ PodScheduled
    \/ PodDeleted
    \/ ntAdded
    \/ ConfigMapSet
    \/ DelayElapsed
    \/ ProcessNextWorkItem

SpecPods == Init /\ [][NextPods]_vars

(***************************************************************************)
(* Bandwidth reservations.  The controller keeps no reservation map and    *)
(* no handler records one: the reservation of every pair is unset.         *)
(***************************************************************************)
bandwidthAllocatable == << >>

\* the quantity a reservation map holds for an ordered pair, zero if unset
EntryOf(map, origin, destination) ==
    IF <<origin, destination>> \in DOMAIN map THEN map[<<origin, destination>>] ELSE 0

Reservation(origin, destination) == EntryOf(bandwidthAllocatable, origin, destination)

(***************************************************************************)
(* Properties                                                              *)
(***************************************************************************)
\* the step just taken ran syncHandler
SyncRan == lastSync.acted /\ lastSync.synced

\* the step just taken ran syncHandler up to the weights and the patch step
ReachedWeights == SyncRan /\ lastSync.out.exit = "patched"

\* hours between the creation of the object and the present
ElapsedHours(nt) == (now - nt.creationTimestamp) * TickHours

\* the lists of the entries named Manual
ManualEntries(weights) ==
    { [region |-> weights[i].regionCostList, zone |-> weights[i].zoneCostList] :
        i \in { k \in 1..Len(weights) : weights[k].name = Manual } }

ItemsQueued(q) == { q.queue[i] : i \in 1..Len(q.queue) }

\* C1: a sync that finds the NetworkTopology or its config map missing
\* returns no error and does not put the key back on the queue, neither
\* at once nor after a rate-limited delay.
C1_NotFoundNoRequeue ==
    (SyncRan /\ lastSync.out.exit \in {"nt not found", "cm not found"})
        => /\ lastSync.out.ret = "nil"
           /\ lastSync.out.requeues = 0
           /\ NumRequeues(ntQueue, lastSync.item) = lastSync.failuresBefore
           /\ lastSync.item \notin ItemsQueued(ntQueue)

\* C2: a sync that reaches the weights step recomputes exactly when
\* weightCalculationTime is zero or more than the staleness interval has
\* elapsed since the creation timestamp; otherwise spec.weights and
\* weightCalculationTime of the copy stay as fetched.
C2_RecomputeExactlyWhenStale ==
    ReachedWeights
        => LET f == lastSync.out.fetched
               m == lastSync.out.mutated
           IN  /\ lastSync.out.recomputed
                    <=> (IsZero(f.weightCalculationTime) \/ ElapsedHours(f) > StalenessHours)
               /\ lastSync.out.recomputed => m.weightCalculationTime = now
               /\ ~lastSync.out.recomputed
                    => /\ m.weights = f.weights
                       /\ m.weightCalculationTime = f.weightCalculationTime

\* C3: with weightCalculationTime zero, the sync that finds the nodes and
\* the config map recomputes and leaves weightCalculationTime non-zero (also
\* in the stored object once the patch is applied); a sync of an object with
\* a non-zero weightCalculationTime inside the staleness window (no more
\* than the staleness interval since creation) recomputes nothing and
\* leaves spec.weights and weightCalculationTime as fetched.
C3_StalenessTrigger ==
    ReachedWeights
        => LET f == lastSync.out.fetched
               m == lastSync.out.mutated
           IN  /\ IsZero(f.weightCalculationTime)
                    => /\ lastSync.out.recomputed
                       /\ ~IsZero(m.weightCalculationTime)
                       /\ lastSync.out.applied
                            => ~IsZero(ntStore[<<f.namespace, f.name>>].weightCalculationTime)
               /\ (~IsZero(f.weightCalculationTime) /\ ElapsedHours(f) <= StalenessHours)
                    => /\ ~lastSync.out.recomputed
                       /\ m.weights = f.weights
                       /\ m.weightCalculationTime = f.weightCalculationTime

\* a sync of an object that holds a stored recomputation result, inside the window
C3_Witness ==
    /\ ReachedWeights
    /\ ~IsZero(lastSync.out.fetched.weightCalculationTime)
    /\ ElapsedHours(lastSync.out.fetched) <= StalenessHours
    /\ Len(lastSync.out.fetched.weights) = 2
    /\ lastSync.out.fetched.weights[2].name = Dijkstra
    /\ lastSync.out.fetched.weights[2].regionCostList # << >>
    /\ ~lastSync.out.recomputed

\* C4: after a full recomputation spec.weights is exactly Manual then
\* Dijkstra, whatever it held before, and the Manual lists are those of the
\* fetched Manual entry; no sync changes the Manual lists of an object.
C4_ManualPassThrough ==
    ReachedWeights
        => LET f == lastSync.out.fetched
               m == lastSync.out.mutated
           IN  /\ lastSync.out.recomputed
                    => /\ Len(m.weights) = 2
                       /\ m.weights[1].name = Manual
                       /\ m.weights[2].name = Dijkstra
                       /\ \A i \in 1..Len(f.weights) :
                            f.weights[i].name = Manual
                                => /\ m.weights[1].regionCostList = f.weights[i].regionCostList
                                   /\ m.weights[1].zoneCostList = f.weights[i].zoneCostList
               /\ ManualEntries(f.weights) # {}
                    => ManualEntries(m.weights) = ManualEntries(f.weights)

\* a recomputation of an object whose weights were Dijkstra, Custom, Manual
C4_Witness ==
    /\ ReachedWeights
    /\ lastSync.out.recomputed
    /\ Len(lastSync.out.fetched.weights) = 3
    /\ lastSync.out.fetched.weights[3].name = Manual
    /\ lastSync.out.fetched.weights[3].regionCostList # << >>

\* C5 (as stated): a patch is submitted if and only if the fetched object
\* and its mutated copy differ; when they are identical no patch is sent and
\* the sync succeeds.
C5_PatchIffDiffer ==
    ReachedWeights
        => /\ lastSync.out.submitted <=> (lastSync.out.fetched # lastSync.out.mutated)
           /\ lastSync.out.fetched = lastSync.out.mutated => lastSync.out.ret = "nil"

\* C5 (amended): a patch is submitted only if the two differ; when they
\* differ it is submitted unless computing the merge patch fails, and then
\* the sync returns that error; when they are identical no patch is sent
\* and the sync succeeds.
C5_PatchOnlyIfDiffer ==
    ReachedWeights
        => /\ lastSync.out.submitted => lastSync.out.fetched # lastSync.out.mutated
           /\ (lastSync.out.fetched # lastSync.out.mutated /\ ~lastSync.out.submitted)
                => (lastSync.out.struck = "createPatch" /\ lastSync.out.ret = "err")
           /\ lastSync.out.fetched = lastSync.out.mutated
                => (~lastSync.out.submitted /\ lastSync.out.ret = "nil")

\* a sync whose copy equals the fetched object: nothing is sent
C5_Witness ==
    /\ ReachedWeights
    /\ lastSync.out.fetched = lastSync.out.mutated
    /\ ~lastSync.out.submitted
    /\ lastSync.out.ret = "nil"

\* C6: a sync that meets a failure of the NetworkTopology fetch, the node
\* listing or the config-map fetch (other than not-found), or of patch
\* computation or submission, returns the error, and the key is re-added
\* with rate limiting exactly once: one more failure on record, the key
\* waiting for its delay and not on the queue.
C6_ErrorsRequeueOnce ==
    (SyncRan /\ lastSync.out.struck # "none")
        => /\ lastSync.out.ret = "err"
           /\ lastSync.out.requeues = 1
           /\ NumRequeues(ntQueue, lastSync.item) = lastSync.failuresBefore + 1
           /\ lastSync.item \in ntQueue.waitingForAdd
           /\ lastSync.item \notin ItemsQueued(ntQueue)
           /\ lastSync.result

\* a sync whose patch submission failed
C6_Witness ==
    /\ SyncRan
    /\ lastSync.out.struck = "patch"
    /\ lastSync.out.submitted
    /\ lastSync.out.ret = "err"

\* C7: after a sync of key k that ends with a successful patch or a no-op
\* the rate limiter holds no failure of k; after a sync that ends in an
\* error the record of k is not reset.
C7_SuccessResetsBackoff ==
    /\ (ReachedWeights /\ lastSync.out.ret = "nil")
          => NumRequeues(ntQueue, lastSync.item) = 0
    /\ (SyncRan /\ lastSync.out.ret = "err")
          => NumRequeues(ntQueue, lastSync.item) > lastSync.failuresBefore

\* C8: a dequeued item that is no string, or no valid namespace/name key,
\* is dropped: no reconciliation work, not re-added, marked done, and
\* processNextWorkItem returns true.
C8_MalformedDropped ==
    (lastSync.acted /\ (~lastSync.item.str \/ SplitMetaNamespaceKey(lastSync.item).err))
        => /\ lastSync.result
           /\ ~lastSync.item.str => ~lastSync.synced
           /\ lastSync.out.fetched = None
           /\ ~lastSync.out.recomputed
           /\ ~lastSync.out.submitted
           /\ lastSync.out.requeues = 0
           /\ lastSync.item \notin ItemsQueued(ntQueue)
           /\ lastSync.item \notin ntQueue.waitingForAdd
           /\ lastSync.item \notin ntQueue.dirty
           /\ lastSync.item \notin ntQueue.processing
           /\ NumRequeues(ntQueue, lastSync.item) = 0

\* a non-string item was just dropped and the next item waits for the worker
C8_Witness ==
    /\ lastSync.acted
    /\ ~lastSync.item.str
    /\ ~lastSync.synced
    /\ lastSync.result
    /\ ntQueue.queue # << >>

\* every CostInfo of the list carries the reservation of its pair and the
\* capacity the manual list declares for it
CostsFollow(costList, manualList) ==
    \A i \in 1..Len(costList) :
        \A j \in 1..Len(costList[i].costs) :
            LET o == costList[i].origin
                c == costList[i].costs[j]
            IN  /\ c.bandwidthAllocated = Reservation(o, c.destination)
                /\ c.bandwidthCapacity =
                       FindOriginBandwidthCapacity(FindOriginCosts(manualList, o),
                                                   c.destination)

\* C9: in every CostInfo of a freshly computed Dijkstra entry,
\* bandwidthAllocated is the reservation of the ordered pair (zero if none)
\* and bandwidthCapacity is the capacity the Manual entry declares for the
\* origin and destination (zero if none).
C9_BandwidthFromReservationAndManual ==
    (ReachedWeights /\ lastSync.out.recomputed)
        => LET w == lastSync.out.mutated.weights
           IN  /\ CostsFollow(w[2].regionCostList, w[1].regionCostList)
               /\ CostsFollow(w[2].zoneCostList, w[1].zoneCostList)

\* the step schedules pod p while the pod it depends on, by d, runs on another node
SchedulesDependent(p, d) ==
    /\ d.workload = p
    /\ pods[p] = ""
    /\ pods'[p] # ""
    /\ pods[d.on] # ""
    /\ pods[d.on] # pods'[p]

\* C10: when a workload X that depends on Y with minimum bandwidth B is
\* scheduled and Y runs on another node: in another zone of the same region
\* the zone-pair reservation grows by B and the region-pair entry is
\* unchanged; in the same zone nothing changes; in another region the
\* region-pair reservation grows by B.
C10_ReservationAccumulates ==
    [][ \A p \in PodNames, d \in Dependencies :
          SchedulesDependent(p, d)
            => LET x == nodeStore[pods'[p]]
                   y == nodeStore[pods[d.on]]
                   before == bandwidthAllocatable
                   after == bandwidthAllocatable'
               IN  /\ (GetNodeRegion(x) = GetNodeRegion(y) /\ GetNodeZone(x) # GetNodeZone(y))
                        => /\ EntryOf(after, GetNodeZone(x), GetNodeZone(y))
                                = EntryOf(before, GetNodeZone(x), GetNodeZone(y)) + d.minBandwidth
                           /\ EntryOf(after, GetNodeRegion(x), GetNodeRegion(y))
                                = EntryOf(before, GetNodeRegion(x), GetNodeRegion(y))
                   /\ (GetNodeRegion(x) = GetNodeRegion(y) /\ GetNodeZone(x) = GetNodeZone(y))
                        => after = before
                   /\ GetNodeRegion(x) # GetNodeRegion(y)
                        => EntryOf(after, GetNodeRegion(x), GetNodeRegion(y))
                                = EntryOf(before, GetNodeRegion(x), GetNodeRegion(y)) + d.minBandwidth
      ]_vars

\* the pass run last
LastPass == passes[Len(passes)]

RegionsOf(store) == { GetNodeRegion(store[n]) : n \in DOMAIN store }

\* C11: two recomputation passes in succession over the same nodes and the
\* same config-map data yield identical Dijkstra regionCostList and
\* zoneCostList, whatever the order of the node lister and whatever earlier
\* passes left in the controller.
C11_IdempotentRecomputation ==
    (Len(passes) = 2 /\ passes[1].nodes = passes[2].nodes /\ passes[1].data = passes[2].data)
        => /\ passes[1].region = passes[2].region
           /\ passes[1].zone = passes[2].zone

\* C12: the regionCostList of a pass has exactly one OriginInfo for every
\* distinct region of the listed nodes (the empty region included), in
\* strictly ascending order of origin; each holds exactly one CostInfo for
\* every other region, with the region graph's path cost (0 without a path).
C12_RegionListShape ==
    passes # << >>
        => LET l == LastPass.region
               regions == RegionsOf(LastPass.nodes)
           IN  /\ Len(l) = Cardinality(regions)
               /\ { l[i].origin : i \in 1..Len(l) } = regions
               /\ \A i \in 1..(Len(l) - 1) : StrLess(l[i].origin, l[i + 1].origin)
               /\ \A i \in 1..Len(l) :
                    /\ Len(l[i].costs) = Cardinality(regions) - 1
                    /\ { l[i].costs[j].destination : j \in 1..Len(l[i].costs) }
                           = regions \ {l[i].origin}
                    /\ \A j \in 1..Len(l[i].costs) :
                          l[i].costs[j].networkCost =
                              GetPath(LastPass.regionGraph, l[i].origin,
                                      l[i].costs[j].destination).cost

\* a pass over three regions, the empty region of an unlabelled node among them
C12_Witness ==
    /\ passes # << >>
    /\ Cardinality(RegionsOf(LastPass.nodes)) = 3
    /\ "" \in RegionsOf(LastPass.nodes)
    /\ Len(LastPass.region) = 3
    /\ LastPass.region[1].origin = ""

\* C13: every zone cost entry z1 -> z2 of a fresh zoneCostList is for two
\* distinct zones that the nodes listed in that pass place in one region,
\* also after nodes were relabelled or removed since an earlier pass.
C13_ZonePairsShareRegion ==
    passes # << >>
        => LET l == LastPass.zone
               store == LastPass.nodes
           IN  \A i \in 1..Len(l) : \A j \in 1..Len(l[i].costs) :
                   /\ l[i].origin # l[i].costs[j].destination
                   /\ \E n, m \in DOMAIN store :
                         /\ GetNodeZone(store[n]) = l[i].origin
                         /\ GetNodeZone(store[m]) = l[i].costs[j].destination
                         /\ GetNodeRegion(store[n]) = GetNodeRegion(store[m])

\* every destination of the costs list is found by the binary search
FoundByDestination(costs) ==
    \A j \in 1..Len(costs) :
        FindOriginBandwidthCapacity(costs, costs[j].destination) = costs[j].bandwidthCapacity

\* the costs list is in ascending order of destination
AscendingByDestination(costs) ==
    \A j \in 1..(Len(costs) - 1) : StrLess(costs[j].destination, costs[j + 1].destination)

\* C14: in every Dijkstra entry of a pass each origin's costs list is in
\* ascending order of destination, and FindOriginBandwidthCapacity finds
\* every destination present in it.
C14_CostsSortedByDestination ==
    passes # << >>
        => /\ \A i \in 1..Len(LastPass.region) :
                 /\ AscendingByDestination(LastPass.region[i].costs)
                 /\ FoundByDestination(LastPass.region[i].costs)
           /\ \A i \in 1..Len(LastPass.zone) :
                 /\ AscendingByDestination(LastPass.zone[i].costs)
                 /\ FoundByDestination(LastPass.zone[i].costs)

\* C15: on a list sorted ascending by key without duplicates, FindPodOrder,
\* FindOriginCosts, FindTopologyKey and FindOriginBandwidthCapacity return
\* the value of the one entry whose key equals the query when there is one,
\* and otherwise -1, an empty cost list, an empty origin list and zero.
C15_SortedLookups ==
    (find # NoFind /\ find.done)
        => IF \E i \in 1..Len(find.keys) : find.keys[i] = find.key
           THEN /\ find.index = TopologyInfoOf(find.key).index
                /\ find.costs = OriginInfoOf(find.key).costs
                /\ find.originCosts = TopologyKeyInfoOf(find.key).originCosts
                /\ find.bandwidthCapacity = CostInfoOf(find.key).bandwidthCapacity
           ELSE /\ find.index = -1
                /\ find.costs = << >>
                /\ find.originCosts = << >>
                /\ find.bandwidthCapacity = 0

\* the key looked up is the last of a list of full length
C15_Witness ==
    /\ find # NoFind
    /\ find.done
    /\ Len(find.keys) = MaxListLen
    /\ find.keys[Len(find.keys)] = find.key
    /\ find.index = StrRank(find.key)

\* the work queue holds nothing for the key of the NetworkTopology
KeyDropped ==
    /\ NtKey \notin ItemsQueued(ntQueue)
    /\ NtKey \notin ntQueue.dirty
    /\ NtKey \notin ntQueue.processing
    /\ NtKey \notin ntQueue.waitingForAdd

\* C16: once the NetworkTopology is deleted and no further event for its
\* key arrives, the key is synced only finitely many times: from some point
\* on the work queue holds no pending or delayed entry for it.
C16_DeletedKeyDropped ==
    (<>[](ntStore[<<"ns", "a">>] = None)) => <>[]KeyDropped

\* C17: every read and every write of the shared controller state by a node
\* handler or by syncHandler is made by a thread that holds ctrl.lock.
C17_AccessUnderLock == access # NoAccess => access.held

\* the worker is between taking the lock for the weights and releasing it
InPass(w) == pc[w] \in {"rebuild", "weights", "unlock"}

\* C18: a worker holds the lock from the start of its graph rebuild to the
\* end of its weight computation: no two workers are in a pass at once, and
\* no step taken between a pass's rebuild and its weight computation
\* changes the node count or topologyMap.
C18_PassUnderLock ==
    [][ /\ \A w \in Workers : InPass(w)' => lock' = w
        /\ \A w1, w2 \in Workers : (InPass(w1) /\ InPass(w2))' => w1 = w2
        /\ (\E w \in Workers : pc[w] \in {"rebuild", "weights"})
              => /\ nodeCount' = nodeCount
                 /\ topologyMap' = topologyMap ]_vars

\* a worker has rebuilt the graphs and not yet computed the weights while
\* the other worker and a node handler both wait for the lock
C18_Witness ==
    \E w1, w2 \in Workers :
        /\ pc[w1] = "weights"
        /\ pc[w2] = "lockWeights"
        /\ handler.calls # << >>
        /\ handler.step = "idle"

\* the workers that have taken the item off the queue and not yet called Done
Holders(item) == { w \in Workers : pc[w] # "idle" /\ local[w].item = item }

\* C19: the queue holds at most one pending entry for a key, and no key is
\* being reconciled by two workers at the same time.
C19_OnePendingOneWorker ==
    /\ \A i, j \in DOMAIN ntQueue.queue :
          ntQueue.queue[i] = ntQueue.queue[j] => i = j
    /\ \A item \in Items :
          /\ Cardinality(Holders(item)) <= 1
          /\ Holders(item) # {} => item \notin ItemsQueued(ntQueue)

\* an update arrived while a worker reconciles the key: the key is marked
\* and kept off the queue, and the other worker has nothing to take
C19_Witness ==
    /\ Cardinality(Holders(NtKey)) = 1
    /\ NtKey \in ntQueue.dirty
    /\ NtKey \in ntQueue.processing
    /\ ntQueue.queue = << >>
    /\ \E w \in run.workers : pc[w] = "idle"

\* C20: no worker takes a key off the queue before both caches have
\* reported their initial synchronization; when the wait for it fails, Run
\* returns with no worker started and the queue shut down.
C20_WorkersAfterCacheSync ==
    /\ (run.workers # {} \/ \E w \in Workers : pc[w] # "idle")
          => run.ntListerSynced /\ run.nodeListerSynced
    /\ ~(run.ntListerSynced /\ run.nodeListerSynced)
          => ntQueue.processing = {}
    /\ run.pc = "returned" => ntQueue.shuttingDown
    /\ (run.pc = "returned" /\ run.workers = {})
          => \A w \in Workers : pc[w] = "idle"

\* the stop channel was closed before the node cache had synced: Run has
\* returned, no worker runs, and the key that was queued stays there
C20_Witness ==
    /\ run.pc = "returned"
    /\ run.ntListerSynced
    /\ ~run.nodeListerSynced
    /\ run.workers = {}
    /\ ntQueue.shuttingDown
    /\ ntQueue.queue # << >>

\* Run has returned, the queue is shut down and no worker is left
Stopped ==
    /\ run.pc = "returned"
    /\ ntQueue.shuttingDown
    /\ run.workers = {}
    /\ \A w \in Workers : pc[w] = "idle" /\ lock # w

\* C21: once stopCh is closed, Run returns and shuts the queue down and
\* every worker eventually ends; a worker ends only between two items,
\* never while it reconciles one or holds the lock.
C21_StopTerminates ==
    /\ (run.stopCh /\ run.pc # "constructed") ~> Stopped
    /\ [](\A w \in Workers : w \notin run.workers => pc[w] = "idle" /\ lock # w)

\* Run has returned on the stop signal while a worker is in the middle of
\* a recomputation pass, the lock held
C21_Witness ==
    /\ run.pc = "returned"
    /\ run.stopCh
    /\ \E w \in run.workers : pc[w] = "weights" /\ lock = w


\* C22: for each configuration schema with generated conversions, converting
\* an internal value to the external shape and back yields an internal value
\* equal to the original, and neither conversion returns an error (or panics).
C22_RoundTripInternal ==
    (conv # NoConv /\ conv.start = "internal") =>
        /\ conv.err = "nil"
        /\ ~conv.panic
        /\ Len(conv.vals) >= 3 => conv.vals[3] = conv.vals[1]

C22_Witness ==
    /\ conv # NoConv
    /\ conv.start = "internal"
    /\ conv.schema = "TargetLoadPackingArgs"
    /\ Len(conv.vals) = 3
    /\ conv.vals[1].TargetUtilization = 7
    /\ conv.vals[1].MetricProvider.Token = "s"
    /\ conv.vals[2].TargetUtilization = <<7>>

PointerFields(schema) ==
    { n \in InternalFields(schema) : KindOf(schema, n) \in PointerKinds }

\* C23: external-to-internal, every pointer-optional int64/string/float64
\* field becomes the pointed-to value when present and the zero value when
\* absent; internal-to-external, every such field becomes a present pointer
\* to the internal value, so an external value with an absent field does not
\* round-trip to an absent field.
C23_PointerOptionalFields ==
    conv # NoConv =>
        \A n \in PointerFields(conv.schema) :
            /\ \A i \in 1..(Len(conv.vals) - 1) :
                  LET a == conv.vals[i][n]
                      b == conv.vals[i + 1][n]
                  IN  IF SideAt(i) = "external"
                      THEN /\ a # Nil => b = a[1]
                           /\ a = Nil => b = ZeroValue(KindOf(conv.schema, n))
                      ELSE b # Nil /\ Len(b) = 1 /\ b[1] = a
            /\ (conv.start = "external" /\ Len(conv.vals) >= 3 /\ conv.vals[1][n] = Nil)
                  => conv.vals[3][n] # Nil

C23_Witness ==
    /\ conv # NoConv
    /\ conv.start = "external"
    /\ conv.schema = "CoschedulingArgs"
    /\ Len(conv.vals) = 3
    /\ conv.vals[1].PermitWaitingTimeSeconds = Nil
    /\ conv.vals[1].DeniedPGExpirationTimeSeconds = <<7>>
    /\ conv.vals[2].PermitWaitingTimeSeconds = 0
    /\ conv.vals[3].PermitWaitingTimeSeconds = <<0>>


\* C24: GetNodeRegion and GetNodeZone are total: for a node with no label
\* map, or without the respective topology label, they return the empty
\* string, and otherwise exactly the label's value (region label for
\* GetNodeRegion, zone label for GetNodeZone); AssignedPod returns true if
\* and only if the pod's node-name field is non-empty.
C24_LabelExtraction ==
    util # NoUtil =>
        LET labels == util.node.Labels
            Expected(key) ==
                IF labels.nil \/ key \notin DOMAIN labels.map THEN ""
                ELSE labels.map[key]
        IN  /\ "region" \in DOMAIN util.out
                => util.out["region"] = Expected(LabelTopologyRegion)
            /\ "zone" \in DOMAIN util.out
                => util.out["zone"] = Expected(LabelTopologyZone)
            /\ "assigned" \in DOMAIN util.out
                => (util.out["assigned"] <=> util.pod.Spec.NodeName # "")

C24_Witness ==
    /\ util # NoUtil
    /\ DOMAIN util.out = {"region", "zone", "assigned"}
    /\ ~util.node.Labels.nil
    /\ DOMAIN util.node.Labels.map = {LabelTopologyRegion, "kubernetes.io/hostname"}
    /\ util.out["region"] = "r2"
    /\ util.out["zone"] = ""
    /\ ~util.out["assigned"]


\* no node handler is running or waiting to run
HandlersReturned == handler.calls = << >> /\ handler.step = "idle"

\* C25: after any sequence of node add, update and delete notifications in
\* which every node is added before it is updated or deleted, once all
\* handlers have returned the live node count equals the number of nodes
\* currently present, and in no reachable state is it negative.
C25_CountMatchesNodes ==
    /\ HandlersReturned => nodeCount = Cardinality(DOMAIN nodeStore)
    /\ nodeCount >= 0


\* a step in which the informer delivers an update of node n
UpdateOf(n) ==
    /\ handler'.events = handler.events + 1
    /\ handler'.last.event = "update"
    /\ n \in DOMAIN nodeStore
    /\ \A m \in DOMAIN nodeStore \ {n} : nodeStore'[m] = nodeStore[m]

SameTopology(old, new) ==
    GetNodeRegion(old) = GetNodeRegion(new) /\ GetNodeZone(old) = GetNodeZone(new)

\* C26: a node update whose old and new objects have the same region and the
\* same zone changes no controller state (node count, topologyMap, ZoneMap,
\* graphs, queue): no handler runs for it; a node update that changes region
\* or zone leaves the node count, once the handler has returned, equal to
\* its value before the update, and records the new {region, zone} pair
\* when both are non-empty.
C26_NodeUpdateEffect ==
    /\ [][ \A n \in NodeNames :
             UpdateOf(n) =>
                /\ UNCHANGED <<nodeCount, topologyMap, ctrlGraphs, ntQueue>>
                /\ SameTopology(nodeStore[n], nodeStore'[n]) => handler'.calls = << >>
                /\ ~SameTopology(nodeStore[n], nodeStore'[n]) => handler'.calls # << >>
         ]_vars
    /\ [][ (handler.calls = << >> /\ handler'.calls = << >>)
              => UNCHANGED <<nodeCount, topologyMap, ctrlGraphs, ntQueue>> ]_vars
    /\ [](HandlersReturned /\ handler.last.event = "update"
            => /\ nodeCount = handler.last.count
               /\ TopologyKeysOf(nodeStore) \subseteq topologyMap)

C26_Witness ==
    /\ HandlersReturned
    /\ handler.last.event = "update"
    /\ handler.events = 3
    /\ "n1" \in DOMAIN nodeStore
    /\ GetNodeRegion(nodeStore["n1"]) = "r2"
    /\ GetNodeZone(nodeStore["n1"]) = "z2"
    /\ <<"r1", "z1">> \in topologyMap
    /\ <<"r2", "z2">> \in topologyMap
    /\ access.kind = "read"


\* the integers the values of MeasuredData stand for: "x" is no integer and
\* there is no value for n3 -> n2
MeasuredCosts ==
    ( <<"n1", "n2">> :> 5 ) @@ ( <<"n2", "n1">> :> 3 ) @@ ( <<"n1", "n3">> :> 10 ) @@
    ( <<"n3", "n1">> :> 0 ) @@ ( <<"n2", "n3">> :> 7 ) @@ ( <<"n3", "n2">> :> 0 )

SetMax(S) == CHOOSE x \in S : \A y \in S : x >= y

\* the weight of the direct edge u -> v, an edge never written counting as 0
EdgeWeight(g, u, v) == IF <<u, v>> \in Edges(g) THEN g[<<u, v>>] ELSE 0

\* no edge of graph g has a lower weight, or is missing, in graph h
NotLowered(g, h) ==
    \A e \in Edges(g) : e \in Edges(h) /\ h[e] >= g[e]

\* the inner loop of updateGraph from pair (i, j) on never lowers an edge of
\* the region graph or of the zone graph
RECURSIVE LoopNeverLowers(_, _, _, _, _)
LoopNeverLowers(st, nodes, data, i, j) ==
    IF i > Len(nodes) THEN TRUE
    ELSE IF j > Len(nodes) THEN LoopNeverLowers(st, nodes, data, i + 1, 1)
    ELSE IF nodes[i].name # nodes[j].name
    THEN LET next == UpdatePair(st, nodes[i], nodes[j],
                                Atoi(DataAt(data, GetConfigmapCostQuery(nodes[i].name,
                                                                        nodes[j].name))).val)
         IN  /\ NotLowered(st.regionGraph, next.regionGraph)
             /\ NotLowered(st.zoneGraph, next.zoneGraph)
             /\ LoopNeverLowers(next, nodes, data, i, j + 1)
    ELSE LoopNeverLowers(st, nodes, data, i, j + 1)

\* C28: after a graph rebuild, for every ordered pair of distinct regions
\* (r1, r2) the direct edge r1 -> r2 of the region graph carries the maximum
\* of the costs of all node pairs (n1 in r1, n2 in r2), and likewise the
\* zone-graph edge for every pair of distinct zones of one region; within a
\* pass, processing a further node pair never lowers the weight of an edge
\* already recorded.
C28_EdgesCarryMaximum ==
    (passes # << >> /\ LastPass.data = MeasuredData)
        => LET store == LastPass.nodes
               N == DOMAIN store
               RegionCosts(r1, r2) ==
                   { MeasuredCosts[<<n, m>>] :
                       n \in { x \in N : GetNodeRegion(store[x]) = r1 },
                       m \in { x \in N : GetNodeRegion(store[x]) = r2 } }
               ZoneCosts(z1, z2) ==
                   { MeasuredCosts[p] :
                       p \in { q \in N \X N :
                                 /\ GetNodeZone(store[q[1]]) = z1
                                 /\ GetNodeZone(store[q[2]]) = z2
                                 /\ GetNodeRegion(store[q[1]]) = GetNodeRegion(store[q[2]]) } }
           IN  /\ \A r1, r2 \in RegionsOf(store) :
                    r1 # r2 => EdgeWeight(LastPass.regionGraph, r1, r2)
                                  = SetMax(RegionCosts(r1, r2))
               /\ \A n, m \in N :
                    (/\ GetNodeRegion(store[n]) = GetNodeRegion(store[m])
                     /\ GetNodeZone(store[n]) # GetNodeZone(store[m]))
                        => EdgeWeight(LastPass.zoneGraph, GetNodeZone(store[n]),
                                      GetNodeZone(store[m]))
                              = SetMax(ZoneCosts(GetNodeZone(store[n]), GetNodeZone(store[m])))
               /\ \A order \in NodeLists(store) :
                    LoopNeverLowers([nodeGraph |-> NewGraph, regionGraph |-> NewGraph,
                                     zoneGraph |-> NewGraph, ZoneMap |-> {}],
                                    ListNodes(store, order), LastPass.data, 1, 1)


\* the weights of the NetworkTopology have been computed and published
Published(k) == ntStore[k] # None /\ ~IsZero(ntStore[k].weightCalculationTime)

\* C29: if the config map named by a NetworkTopology is missing when the
\* topology is first synced and is created later, then, with no further
\* NetworkTopology event, the topology's Dijkstra weights are still
\* eventually computed and published (status.weightCalculationTime
\* eventually becomes non-zero).
C29_PublishedAfterConfigMap ==
    \A k \in NtNames :
        (ntStore[k] # None /\ cmStore.present) ~> Published(k)

\* the first sync met no config map, the config map came later, and the
\* weights are published
C29_Witness ==
    /\ cmStore.present
    /\ \A k \in NtNames : Published(k)
    /\ NumRequeues(ntQueue, NtKey) > 0
    /\ \E k \in NtNames : \E i \in 1..Len(ntStore[k].weights) :
          /\ ntStore[k].weights[i].name = Dijkstra
          /\ ntStore[k].weights[i].regionCostList # << >>

\* C30: after a node is added to or removed from the cluster, with no
\* NetworkTopology event occurring afterwards, status.nodeCount of every
\* existing NetworkTopology eventually equals the new live node count.
C30_StatusFollowsNodeCount ==
    \A k \in NtNames :
        <>[]((ntStore[k] # None /\ cmStore.present) => ntStore[k].nodeCount = nodeCount)


\* the thread is between a Lock and the Unlock that follows it
InCriticalSection(t) ==
    IF t = Informer THEN handler.step = "locked"
    ELSE pc[t] \in {"count", "rebuild", "weights", "unlock"}

C33_DeleteDecrementsOnce ==
    (HandlersReturned /\ handler.last.event = "delete")
        => nodeCount = handler.last.count - 1


\* the items the workers hold: obtained with Get and not yet returned from
Held == { local[w].item : w \in { v \in Workers : pc[v] # "idle" } }

\* C34: every item a worker obtains from the queue is marked done exactly
\* once, whether its sync succeeds, fails or the item is malformed (the items
\* being processed are exactly those the workers hold); consequently a
\* notification for a key that arrives while the key is being reconciled is
\* not lost: the key is obtained and reconciled again after the running sync
\* finishes (a key marked dirty while it is processed is not in the queue,
\* and only the Get of a later run takes it out of the dirty set).
C34_DoneOnceAndRequeued ==
    /\ [](ntQueue.processing = Held)
    /\ (NtKey \in ntQueue.processing /\ NtKey \in ntQueue.dirty)
          ~> (NtKey \notin ntQueue.dirty)

\* an update of the key arrived while a worker is about to patch it
C34_Witness ==
    /\ NtKey \in ntQueue.processing
    /\ NtKey \in ntQueue.dirty
    /\ \E w \in Workers : pc[w] = "patch" /\ local[w].item = NtKey


\* the zero value of config.ScoringStrategy
ZeroScoringStrategy == [Type |-> "", Resources |-> << >>]

\* C35: converting an external NodeResourceTopologyMatchArgs to the internal
\* shape completes without failure for every input; when the optional
\* ScoringStrategy is absent the internal ScoringStrategy is the zero value,
\* and when it is present the internal value has the same Type and Resources.
C35_ExternalConverts ==
    (conv # NoConv /\ conv.schema = "NodeResourceTopologyMatchArgs"
                   /\ conv.start = "external") =>
        /\ ~conv.panic
        /\ conv.err = "nil"
        /\ Len(conv.vals) >= 2 =>
              LET a == conv.vals[1].ScoringStrategy
                  b == conv.vals[2].ScoringStrategy
              IN  IF a = Nil THEN b = ZeroScoringStrategy
                  ELSE b.Type = a[1].Type /\ b.Resources = a[1].Resources


\* C36: the external NodeResourceTopologyMatchArgs produced by converting an
\* internal value is an independent copy: changing the ScoringStrategy of the
\* input after the conversion does not change the ScoringStrategy seen
\* through the output, and the other way round (a write to one value leaves
\* every other value as it was).
C36_IndependentCopy ==
    [][conv'.written # conv.written
          => \A j \in 1..Len(conv.vals) :
                j # conv'.written => conv'.vals[j] = conv.vals[j]]_vars


\* the positions of the list whose key equals the query
Matches == { i \in 1..Len(find.keys) : find.keys[i] = find.key }

\* C37: on every input list, sorted or not and with or without duplicate
\* keys, each of the four lookups terminates (it yields a result), does not
\* modify the list, and returns either the default (-1, empty list, empty
\* list, zero quantity) or the value of some entry whose key equals the
\* query, never the value of an entry with a different key.
C37_LookupsOnAnyList ==
    /\ [](~find.done => ENABLED Lookup)
    /\ [][find'.keys = find.keys /\ find'.key = find.key]_vars
    /\ [](find.done =>
            /\ find.index = -1
                  \/ \E i \in Matches : find.index = TopologyInfoOf(find.keys[i]).index
            /\ find.costs = << >>
                  \/ \E i \in Matches : find.costs = OriginInfoOf(find.keys[i]).costs
            /\ find.originCosts = << >>
                  \/ \E i \in Matches :
                        find.originCosts = TopologyKeyInfoOf(find.keys[i]).originCosts
            /\ find.bandwidthCapacity = 0
                  \/ \E i \in Matches :
                        find.bandwidthCapacity = CostInfoOf(find.keys[i]).bandwidthCapacity)

\* a list out of order with a duplicate key: the key in the middle is found,
\* and so is not the default
C37_Witness ==
    /\ find.done
    /\ Len(find.keys) = 3
    /\ find.keys[1] = find.keys[3]
    /\ StrLess(find.keys[2], find.keys[1])
    /\ find.key = find.keys[2]
    /\ find.index = TopologyInfoOf(find.key).index
    /\ find.costs # << >>

====
